---- MODULE Spec2Model ----
(***************************************************************************)
(* Batch management page (EnhancedBatches): the add-batch form with its    *)
(* strain/light allocation, batch-code generation, the batch status        *)
(* machine and the harvest recording flow, over a record store with the    *)
(* tables batches, batch_strains, harvest_summaries and harvest_details.   *)
(*                                                                         *)
(* Conventions.  A nullable or textual value is a sequence: <<>> is null   *)
(* or the empty string, <<v>> a present value.  Names and batch codes are  *)
(* sequences of one-character strings.  Percentages are carried in tenths  *)
(* of a percent (93.8 is 938), so the tolerance 100.1 is 1001; the binary  *)
(* rounding of a floating-point sum is not modelled.  Every store call     *)
(* either succeeds or returns an error and changes nothing.                *)
(***************************************************************************)
EXTENDS Integers, Sequences, FiniteSets, TLC

VARIABLES
    dbBatches,          \* table batches: set of rows
    dbBatchStrains,     \* table batch_strains: set of rows
    dbSummaries,        \* table harvest_summaries: set of rows
    dbDetails,          \* table harvest_details: set of rows
    nextBatchId,        \* next id the store gives a batch row
    nextSummaryId,      \* next id the store gives a summary row
    batches,            \* useState batches: the loaded, processed list
    showAddModal,
    newBatch,           \* the add-batch form
    batchStrains,       \* pending assignment list of the form
    selectedStrain,
    lightsForStrain,
    percentageForStrain,
    showHarvestModal,
    selectedBatchForHarvest,
    harvestData,
    harvestSummary,
    harvestDataSaved,
    viewingExistingHarvest,
    dbRooms,            \* table rooms: set of rows
    facilityRooms,      \* useState rooms of the facility page: the loaded list
    roomLookups,        \* generateBatchCode calls of the room select in flight
    otherForm,          \* add-batch form of a second session on the same store
    saveRuns,           \* handleSaveHarvestData runs between two of their awaits
    lastOp              \* the last handler run: its store calls and its alert

dbVars == <<dbBatches, dbBatchStrains, dbSummaries, dbDetails, nextBatchId, nextSummaryId>>
formVars == <<showAddModal, newBatch, batchStrains, selectedStrain, lightsForStrain, percentageForStrain>>
harvestVars == <<showHarvestModal, selectedBatchForHarvest, harvestData, harvestSummary, harvestDataSaved, viewingExistingHarvest>>
facilityVars == <<dbRooms, facilityRooms>>
concurrentVars == <<roomLookups, otherForm, saveRuns>>
vars == <<dbVars, batches, formVars, harvestVars, facilityVars, concurrentVars, lastOp>>

----------------------------------------------------------------------------
\* Bounds of the model.

\* Batch rows the store holds at a time.
MaxBatches == 2

\* Most batch rows the store creates in a run, deleted ones included.
MaxBatchIds == 3

\* Harvest summary rows the store hands out ids for.
MaxSummaries == 3

\* Batches created while the strain allocation is explored.
MaxAllocBatches == 1

\* Batch rows in the store while the facility page is explored.
MaxFacilityBatches == 2

----------------------------------------------------------------------------
\* Reference data loaded at mount.

\* new Date().getFullYear()
CurrentYear == 2026

\* The rooms table as loaded by loadBatchesAndData.
rooms ==
    { [id |-> "rA", name |-> <<"F","l","o","w","e","r"," ","R","o","o","m"," ","7">>,
       lights |-> <<16>>, status |-> "active"],
      [id |-> "rB", name |-> <<"V","e","g">>,
       lights |-> <<>>, status |-> "active"],
      [id |-> "rC", name |-> <<"B","a","y"," ","1","2","-","3">>,
       lights |-> <<0>>, status |-> "active"],
      [id |-> "rD", name |-> <<"D","r","y"," ","9">>,
       lights |-> <<5>>, status |-> "inactive"] }

\* The strains table as loaded by loadBatchesAndData (ids).
strains == {"s1", "s2", "s3", "s4"}

\* The strains the user works with outside the rounding exploration.
WorkedStrains == {"s1", "s2"}

\* The dates of the model in calendar order ("YYYY-MM-DD" strings, which
\* compare as the days do).
Calendar == <<"d0", "d1", "d2", "d3", "d4">>

\* The day of a date, counted along Calendar.
DayNumber(date) == CHOOSE i \in 1..Len(Calendar) : Calendar[i] = date

\* The instants at which the page reads the clock (new Date()): the UTC
\* date and whether the time of day is past midnight.
Instants ==
    { [date |-> "d2", afterMidnight |-> TRUE],
      [date |-> "d3", afterMidnight |-> FALSE],
      [date |-> "d3", afterMidnight |-> TRUE] }

\* The cost_entries table as the cost-entry page leaves it; amounts in
\* cents.  Batch 1 and room rA have entries on d3, before d1 and after d3,
\* and none on d1 and d2.
costEntries ==
    { [id |-> 1, batch_id |-> <<1>>, room_id |-> <<>>, amount |-> 1000, date |-> "d3"],
      [id |-> 2, batch_id |-> <<>>, room_id |-> <<"rA">>, amount |-> 200, date |-> "d3"],
      [id |-> 3, batch_id |-> <<1>>, room_id |-> <<"rA">>, amount |-> 50000, date |-> "d3"],
      [id |-> 4, batch_id |-> <<7>>, room_id |-> <<"rB">>, amount |-> 40, date |-> "d2"],
      [id |-> 5, batch_id |-> <<1>>, room_id |-> <<>>, amount |-> 8, date |-> "d0"],
      [id |-> 6, batch_id |-> <<>>, room_id |-> <<"rA">>, amount |-> 1, date |-> "d4"] }

\* electricityCostPerLightPerDay = 0.15 * 1 * 18, in cents.
ElectricityCostPerLightPerDay == 270

\* Numbers the user types into the lights field.  Under "Flower Room 7" the
\* user types 15: of its 16 lights, 15 are 93.75 percent, shown as 93.8, and
\* the 1 that is left is 6.25 percent, shown as 6.3.  Under any other room
\* selection the user types 2.
TypedLights(roomId) == IF roomId = "rA" THEN {15} ELSE {2}

\* Values the user types into the batch code field.
TypedCodes ==
    { <<"R","7","-","2","0","2","6","-","X">> }

Statuses == {"planned", "active", "harvested", "archived"}

----------------------------------------------------------------------------
\* JavaScript helpers.

\* rooms.find((r) => r.id === id): <<>> when there is none.
FindRoom(id) ==
    IF \E r \in rooms : r.id = id
    THEN <<CHOOSE r \in rooms : r.id = id>>
    ELSE <<>>

\* Truthiness of a nullable number (room.lights): null and 0 are falsy.
Truthy(n) == n # <<>> /\ n[1] # 0

\* n || 0 for a nullable number.
OrZero(n) == IF n = <<>> THEN 0 ELSE n[1]

RECURSIVE SumLights(_)
\* reduce((sum, strain) => sum + strain.lights_assigned, 0)
SumLights(list) ==
    IF list = <<>> THEN 0
    ELSE Head(list).lights_assigned + SumLights(Tail(list))

RECURSIVE SumPercentage(_)
\* reduce((sum, strain) => sum + strain.percentage, 0), in tenths
SumPercentage(list) ==
    IF list = <<>> THEN 0
    ELSE Head(list).percentage + SumPercentage(Tail(list))

\* (lights / room.lights * 100).toFixed(1), in tenths: the nearest tenth,
\* a half rounded away from zero.
PercentageOf(lights, roomLights) ==
    LET mag == IF lights < 0 THEN -lights ELSE lights
        r == (2 * mag * 1000 + roomLights) \div (2 * roomLights)
    IN IF lights < 0 THEN -r ELSE r

IsDigit(c) == c \in {"0","1","2","3","4","5","6","7","8","9"}

RECURSIVE DropNonDigits(_)
DropNonDigits(s) ==
    IF s = <<>> THEN <<>>
    ELSE IF IsDigit(Head(s)) THEN s ELSE DropNonDigits(Tail(s))

RECURSIVE TakeDigits(_)
TakeDigits(s) ==
    IF s = <<>> \/ ~IsDigit(Head(s)) THEN <<>>
    ELSE <<Head(s)>> \o TakeDigits(Tail(s))

\* roomName.match(/(\d+)/): the leftmost, longest run of digits, <<>> if none.
MatchDigits(roomName) == TakeDigits(DropNonDigits(roomName))

DigitChar(d) == <<"0","1","2","3","4","5","6","7","8","9">>[d + 1]

RECURSIVE NatToString(_)
\* String(n) for n >= 0
NatToString(n) ==
    IF n < 10 THEN <<DigitChar(n)>>
    ELSE NatToString(n \div 10) \o <<DigitChar(n % 10)>>

RECURSIVE PadStart2(_)
\* s.padStart(2, "0")
PadStart2(s) == IF Len(s) >= 2 THEN s ELSE PadStart2(<<"0">> \o s)

\* SQL: code LIKE 'prefix%' (the prefix holds no wildcard character)
Like(code, prefix) ==
    /\ Len(code) >= Len(prefix)
    /\ SubSeq(code, 1, Len(prefix)) = prefix

----------------------------------------------------------------------------
\* The record store.

\* batch_strains rows of a batch in insertion order (the embedded
\* batch_strains(...) of the select in loadBatches).
AssignmentsOf(rows, batchId) ==
    LET mine == {a \in rows : a.batch_id = batchId}
    IN [i \in 1..Cardinality(mine) |->
          LET a == CHOOSE x \in mine : x.idx = i
          IN [strain_id |-> a.strain_id,
              lights_assigned |-> a.lights_assigned,
              percentage |-> a.percentage]]

\* rooms(name, lights) of the select of loadBatches: the row of the rooms
\* table the batch refers to, if the table holds it.
JoinRoom(id) ==
    IF \E r \in dbRooms : r.id = id
    THEN <<CHOOSE r \in dbRooms : r.id = id>>
    ELSE <<>>

\* One element of processedBatches: the row with its derived fields.
ProcessBatch(row, assignments) ==
    LET room == JoinRoom(row.room_id)
        hasStrains == assignments # <<>>
    IN [id |-> row.id,
        room_id |-> row.room_id,
        strain_id |-> row.strain_id,
        batch_code |-> row.batch_code,
        start_date |-> row.start_date,
        status |-> row.status,
        lights_assigned |->
            IF hasStrains THEN SumLights(assignments)
            ELSE IF room = <<>> THEN 0 ELSE OrZero(room[1].lights),
        strain_percentage |->
            IF hasStrains THEN SumPercentage(assignments) ELSE 1000,
        batch_strains |-> assignments]

\* loadBatches: the new value of the batches state.  mode "full": the select
\* with batch_strains succeeded; "basic": it failed and the fallback select
\* succeeded; "fail": both failed and the state is kept.
loadBatches(mode, rows, strainRows, current) ==
    CASE mode = "full" ->
            {ProcessBatch(b, AssignmentsOf(strainRows, b.id)) : b \in rows}
      [] mode = "basic" ->
            {ProcessBatch(b, <<>>) : b \in rows}
      [] OTHER -> current

LoadModes == {"full", "basic", "fail"}

\* Fault: generateBatchCode numbering from the count instead of the count + 1.
generateBatchCodeFromCount(roomName, roomId, rows, lookupOk) ==
    LET roomNumberMatch == MatchDigits(roomName)
        roomNumber == IF roomNumberMatch # <<>> THEN roomNumberMatch ELSE <<"1">>
        prefix == <<"R">> \o roomNumber \o <<"-">> \o NatToString(CurrentYear) \o <<"-">>
        existingBatches ==
            {b \in rows : b.room_id = roomId /\ Like(b.batch_code, prefix)}
    IN IF ~lookupOk THEN prefix \o <<"0","1">>
       ELSE prefix \o PadStart2(NatToString(Cardinality(existingBatches)))

\* Fault: generateBatchCode giving no code when the lookup fails.
generateBatchCodeNoFallback(roomName, roomId, rows, lookupOk) ==
    LET roomNumberMatch == MatchDigits(roomName)
        roomNumber == IF roomNumberMatch # <<>> THEN roomNumberMatch ELSE <<"1">>
        prefix == <<"R">> \o roomNumber \o <<"-">> \o NatToString(CurrentYear) \o <<"-">>
        existingBatches ==
            {b \in rows : b.room_id = roomId /\ Like(b.batch_code, prefix)}
    IN IF ~lookupOk THEN <<>>
       ELSE prefix \o PadStart2(NatToString(Cardinality(existingBatches) + 1))

\* generateBatchCode(roomName, roomId) against the batches table `rows`;
\* lookupOk is whether the select of the existing codes succeeded.
generateBatchCode(roomName, roomId, rows, lookupOk) ==
    LET roomNumberMatch == MatchDigits(roomName)
        roomNumber == IF roomNumberMatch # <<>> THEN roomNumberMatch ELSE <<"1">>
        roomCode == <<"R">> \o roomNumber
        prefix == roomCode \o <<"-">> \o NatToString(CurrentYear) \o <<"-">>
        existingBatches ==
            {b \in rows : b.room_id = roomId /\ Like(b.batch_code, prefix)}
        batchCount == Cardinality(existingBatches) + 1
        batchNumber == PadStart2(NatToString(batchCount))
    IN IF ~lookupOk THEN prefix \o <<"0","1">>
       ELSE prefix \o batchNumber

\* A store call in the record of a handler run.
Call(name, ok) == [call |-> name, ok |-> ok]

\* The record of a handler run.
Op(name, target, calls, alert) ==
    [op |-> name, target |-> target, calls |-> calls, alert |-> alert]

\* The add-batch form of the second session as its mount leaves it; of that
\* session the model carries the room and the code of the form.
ClosedForm == [room_id |-> "", batch_code |-> <<>>]

----------------------------------------------------------------------------
\* State after mount: loadBatchesAndData has run against an empty store.

Init ==
    /\ dbBatches = {}
    /\ dbBatchStrains = {}
    /\ dbSummaries = {}
    /\ dbDetails = {}
    /\ nextBatchId = 1
    /\ nextSummaryId = 1
    /\ batches = {}
    /\ showAddModal = FALSE
    /\ newBatch = [room_id |-> "", batch_code |-> <<>>, start_date |-> "",
                   status |-> "planned"]
    /\ batchStrains = <<>>
    /\ selectedStrain = ""
    /\ lightsForStrain = <<>>
    /\ percentageForStrain = <<>>
    /\ showHarvestModal = FALSE
    /\ selectedBatchForHarvest = <<>>
    /\ harvestData = <<>>
    /\ harvestSummary = <<>>
    /\ harvestDataSaved = FALSE
    /\ viewingExistingHarvest = FALSE
    /\ dbRooms = rooms
    /\ facilityRooms = {}
    /\ roomLookups = {}
    /\ otherForm = ClosedForm
    /\ saveRuns = {}
    /\ lastOp = Op("mount", 0, <<>>, "")

\* A load of the page: every useState starts over and loadBatchesAndData
\* reads the store.
Mount(loadMode) ==
    /\ batches' = loadBatches(loadMode, dbBatches, dbBatchStrains, {})
    /\ showAddModal' = FALSE
    /\ newBatch' = [room_id |-> "", batch_code |-> <<>>, start_date |-> "",
                    status |-> "planned"]
    /\ batchStrains' = <<>>
    /\ selectedStrain' = ""
    /\ lightsForStrain' = <<>>
    /\ percentageForStrain' = <<>>
    /\ showHarvestModal' = FALSE
    /\ selectedBatchForHarvest' = <<>>
    /\ harvestData' = <<>>
    /\ harvestSummary' = <<>>
    /\ harvestDataSaved' = FALSE
    /\ viewingExistingHarvest' = FALSE
    /\ lastOp' = Op("mount", 0, <<>>, "")
    /\ UNCHANGED dbVars
    /\ UNCHANGED facilityVars
    /\ UNCHANGED concurrentVars

----------------------------------------------------------------------------
\* The add-batch form.

\* "Add Batch" button.
OpenAddModal ==
    /\ ~showAddModal
    /\ ~showHarvestModal
    /\ showAddModal' = TRUE
    /\ lastOp' = Op("openAddModal", 0, <<>>, "")
    /\ UNCHANGED <<dbVars, batches, newBatch, batchStrains, selectedStrain,
                   lightsForStrain, percentageForStrain, harvestVars>>
    /\ UNCHANGED facilityVars
    /\ UNCHANGED concurrentVars

\* Close and Cancel buttons of the add-batch modal: the form keeps its fields.
CloseAddModal ==
    /\ showAddModal
    /\ showAddModal' = FALSE
    /\ lastOp' = Op("closeAddModal", 0, <<>>, "")
    /\ UNCHANGED <<dbVars, batches, newBatch, batchStrains, selectedStrain,
                   lightsForStrain, percentageForStrain, harvestVars>>
    /\ UNCHANGED facilityVars
    /\ UNCHANGED concurrentVars

\* Rooms offered by the room select.
SelectableRooms == {r \in rooms : r.status = "active"}

\* Room select onChange: sets room_id and, for a room, the generated code.
SelectRoom(value, lookupOk) ==
    /\ showAddModal
    /\ value # newBatch.room_id
    /\ LET room == FindRoom(value)
       IN IF value # "" /\ room # <<>>
          THEN /\ newBatch' = [newBatch EXCEPT
                      !.room_id = value,
                      !.batch_code = generateBatchCode(room[1].name, room[1].id,
                                                       dbBatches, lookupOk)]
               /\ lastOp' = Op("selectRoom", 0,
                               <<Call("select batches", lookupOk)>>, "")
          ELSE /\ newBatch' = [newBatch EXCEPT !.room_id = value]
               /\ lookupOk
               /\ lastOp' = Op("selectRoom", 0, <<>>, "")
    /\ UNCHANGED <<dbVars, batches, showAddModal, batchStrains, selectedStrain,
                   lightsForStrain, percentageForStrain, harvestVars>>
    /\ UNCHANGED facilityVars
    /\ UNCHANGED concurrentVars

\* Batch code input onChange.
SetBatchCode(value) ==
    /\ showAddModal
    /\ value # newBatch.batch_code
    /\ newBatch' = [newBatch EXCEPT !.batch_code = value]
    /\ lastOp' = Op("setBatchCode", 0, <<>>, "")
    /\ UNCHANGED <<dbVars, batches, showAddModal, batchStrains, selectedStrain,
                   lightsForStrain, percentageForStrain, harvestVars>>
    /\ UNCHANGED facilityVars
    /\ UNCHANGED concurrentVars

\* Start date input onChange.
SetStartDate(value) ==
    /\ showAddModal
    /\ value # newBatch.start_date
    /\ newBatch' = [newBatch EXCEPT !.start_date = value]
    /\ lastOp' = Op("setStartDate", 0, <<>>, "")
    /\ UNCHANGED <<dbVars, batches, showAddModal, batchStrains, selectedStrain,
                   lightsForStrain, percentageForStrain, harvestVars>>
    /\ UNCHANGED facilityVars
    /\ UNCHANGED concurrentVars

\* Initial Status select onChange: the options are planned and active.
SetInitialStatus(value) ==
    /\ showAddModal
    /\ value # newBatch.status
    /\ newBatch' = [newBatch EXCEPT !.status = value]
    /\ lastOp' = Op("setInitialStatus", 0, <<>>, "")
    /\ UNCHANGED <<dbVars, batches, showAddModal, batchStrains, selectedStrain,
                   lightsForStrain, percentageForStrain, harvestVars>>
    /\ UNCHANGED facilityVars
    /\ UNCHANGED concurrentVars

\* Strain select onChange.
SelectStrain(value) ==
    /\ showAddModal
    /\ value # selectedStrain
    /\ selectedStrain' = value
    /\ lastOp' = Op("selectStrain", 0, <<>>, "")
    /\ UNCHANGED <<dbVars, batches, showAddModal, newBatch, batchStrains,
                   lightsForStrain, percentageForStrain, harvestVars>>
    /\ UNCHANGED facilityVars
    /\ UNCHANGED concurrentVars

\* Lights input onChange; inputValue is <<>> for the empty field, <<n>> for
\* the number n.  maxLights is <<>> for Infinity.
LightsInput(inputValue) ==
    /\ showAddModal
    /\ inputValue # lightsForStrain
    /\ LET lights == OrZero(inputValue)
           room == FindRoom(newBatch.room_id)
           bounded == newBatch.room_id # "" /\ room # <<>> /\ Truthy(room[1].lights)
           maxLights == IF bounded
                        THEN <<room[1].lights[1] - SumLights(batchStrains)>>
                        ELSE <<>>
       IN IF maxLights # <<>> /\ lights > maxLights[1]
          THEN /\ lightsForStrain' = maxLights
               /\ percentageForStrain' =
                      <<PercentageOf(maxLights[1], room[1].lights[1])>>
          ELSE /\ lightsForStrain' = inputValue
               /\ percentageForStrain' =
                      IF bounded
                      THEN <<PercentageOf(lights, room[1].lights[1])>>
                      ELSE percentageForStrain
    /\ lastOp' = Op("lightsInput", 0, <<>>, "")
    /\ UNCHANGED <<dbVars, batches, showAddModal, newBatch, batchStrains,
                   selectedStrain, harvestVars>>
    /\ UNCHANGED facilityVars
    /\ UNCHANGED concurrentVars

\* Fault: the check for a strain that is already in the list is missing.
AlreadyAddedUnchecked(list, strainId) == FALSE

\* batchStrains.some((s) => s.strain_id === selectedStrain)
AlreadyAdded(list, strainId) ==
    \E i \in 1..Len(list) : list[i].strain_id = strainId

\* handleAddStrainToBatch ("Add Strain" button).
handleAddStrainToBatch ==
    /\ showAddModal
    /\ LET room == FindRoom(newBatch.room_id)
           remainingLights == room[1].lights[1] - SumLights(batchStrains)
           newStrain == [strain_id |-> selectedStrain,
                         lights_assigned |-> lightsForStrain[1],
                         percentage |-> percentageForStrain[1]]
           alert ==
               IF selectedStrain = "" \/ lightsForStrain = <<>>
                      \/ percentageForStrain = <<>>
               THEN "Please fill in all strain details"
               ELSE IF /\ newBatch.room_id # ""
                       /\ room # <<>>
                       /\ Truthy(room[1].lights)
                       /\ remainingLights <= 0
               THEN "No lights available. All lights have been assigned to strains."
               ELSE IF AlreadyAdded(batchStrains, selectedStrain)
               THEN "This strain is already added to the batch"
               ELSE ""
       IN /\ lastOp' = Op("addStrain", 0, <<>>, alert)
          /\ IF alert = ""
             THEN /\ batchStrains' = Append(batchStrains, newStrain)
                  /\ selectedStrain' = ""
                  /\ lightsForStrain' = <<>>
                  /\ percentageForStrain' = <<>>
             ELSE UNCHANGED <<batchStrains, selectedStrain, lightsForStrain,
                              percentageForStrain>>
    /\ UNCHANGED <<dbVars, batches, showAddModal, newBatch, harvestVars>>
    /\ UNCHANGED facilityVars
    /\ UNCHANGED concurrentVars

\* batchStrains.filter((_, i) => i !== index)
RemoveAt(list, index) ==
    SubSeq(list, 1, index - 1) \o SubSeq(list, index + 1, Len(list))

\* removeStrainFromBatch (the remove button of a listed strain).
removeStrainFromBatch(index) ==
    /\ showAddModal
    /\ index \in 1..Len(batchStrains)
    /\ batchStrains' = RemoveAt(batchStrains, index)
    /\ lastOp' = Op("removeStrain", 0, <<>>, "")
    /\ UNCHANGED <<dbVars, batches, showAddModal, newBatch, selectedStrain,
                   lightsForStrain, percentageForStrain, harvestVars>>
    /\ UNCHANGED facilityVars
    /\ UNCHANGED concurrentVars

\* Fault: validateBatchStrains without the tolerance of 0.1 percent.
validateBatchStrainsNoTolerance(list, roomId) ==
    LET room == FindRoom(roomId)
    IN IF Len(list) = 0
       THEN [ok |-> FALSE, alert |-> "Please add at least one strain to the batch"]
       ELSE IF room # <<>> /\ SumLights(list) > OrZero(room[1].lights)
       THEN [ok |-> FALSE, alert |-> "Total lights assigned cannot exceed room capacity"]
       ELSE IF room # <<>> /\ SumPercentage(list) > 1000
       THEN [ok |-> FALSE, alert |-> "Total percentage cannot exceed 100%"]
       ELSE [ok |-> TRUE, alert |-> ""]

\* Fault: validateBatchStrains without the check of the lights total.
validateBatchStrainsNoLights(list, roomId) ==
    LET room == FindRoom(roomId)
    IN IF Len(list) = 0
       THEN [ok |-> FALSE, alert |-> "Please add at least one strain to the batch"]
       ELSE IF room # <<>> /\ SumPercentage(list) > 1001
       THEN [ok |-> FALSE, alert |-> "Total percentage cannot exceed 100%"]
       ELSE [ok |-> TRUE, alert |-> ""]

\* validateBatchStrains over the pending list and the form's room:
\* whether it returns true, and the alert it raises when it does not.
validateBatchStrains(list, roomId) ==
    LET room == FindRoom(roomId)
        totalLights == SumLights(list)
        totalPercentage == SumPercentage(list)
    IN IF Len(list) = 0
       THEN [ok |-> FALSE, alert |-> "Please add at least one strain to the batch"]
       ELSE IF room # <<>> /\ totalLights > OrZero(room[1].lights)
       THEN [ok |-> FALSE, alert |-> "Total lights assigned cannot exceed room capacity"]
       ELSE IF room # <<>> /\ totalPercentage > 1001
       THEN [ok |-> FALSE, alert |-> "Total percentage cannot exceed 100%"]
       ELSE [ok |-> TRUE, alert |-> ""]

\* The rows handleAddBatch inserts into batch_strains for a new batch.
StrainAssignments(batchId, list) ==
    { [batch_id |-> batchId, idx |-> i,
       strain_id |-> list[i].strain_id,
       lights_assigned |-> list[i].lights_assigned,
       percentage |-> list[i].percentage] : i \in 1..Len(list) }

EmptyForm ==
    [room_id |-> "", batch_code |-> <<>>, start_date |-> "", status |-> "planned"]

\* Fault: the required-fields check forgets the start date.
MissingRoomOnly(form) == form.room_id = ""

\* !newBatch.room_id || !newBatch.start_date
MissingRequired(form) == form.room_id = "" \/ form.start_date = ""

\* Fault: the code is generated again at the submit, whatever the form holds.
CodeRegenerated(formCode, generated) == generated

\* newBatch.batch_code || (room ? await generateBatchCode(...) : "")
CodeToStore(formCode, generated) ==
    IF formCode # <<>> THEN formCode ELSE generated

\* handleAddBatch (submit of the add-batch form).  lookupOk, batchOk and
\* assignmentsOk are the outcomes of the store calls, loadMode the outcome of
\* the reload.
handleAddBatch(lookupOk, batchOk, assignmentsOk, loadMode) ==
    /\ showAddModal
    /\ LET valid == validateBatchStrains(batchStrains, newBatch.room_id)
           room == FindRoom(newBatch.room_id)
           generates == newBatch.batch_code = <<>> /\ room # <<>>
           batchCode ==
               CodeToStore(newBatch.batch_code,
                           IF room # <<>>
                           THEN generateBatchCode(room[1].name, room[1].id,
                                                  dbBatches, lookupOk)
                           ELSE <<>>)
           lookupCalls ==
               IF generates THEN <<Call("select batches", lookupOk)>> ELSE <<>>
           batchData ==
               [id |-> nextBatchId,
                room_id |-> newBatch.room_id,
                strain_id |-> batchStrains[1].strain_id,
                batch_code |-> batchCode,
                start_date |-> newBatch.start_date,
                status |-> newBatch.status]
           rowsAfter == dbBatches \cup {batchData}
           strainsAfter ==
               IF assignmentsOk
               THEN dbBatchStrains \cup StrainAssignments(nextBatchId, batchStrains)
               ELSE dbBatchStrains
       IN IF MissingRequired(newBatch)
          THEN /\ lookupOk /\ batchOk /\ assignmentsOk /\ loadMode = "full"
               /\ lastOp' = Op("addBatch", 0, <<>>, "Please fill in required fields")
               /\ UNCHANGED <<dbVars, batches, formVars>>
          ELSE IF ~valid.ok
          THEN /\ lookupOk /\ batchOk /\ assignmentsOk /\ loadMode = "full"
               /\ lastOp' = Op("addBatch", 0, <<>>, valid.alert)
               /\ UNCHANGED <<dbVars, batches, formVars>>
          ELSE IF ~batchOk
          THEN /\ (generates \/ lookupOk) /\ assignmentsOk /\ loadMode = "full"
               /\ lastOp' = Op("addBatch", 0,
                               lookupCalls \o <<Call("insert batches", FALSE)>>,
                               "Error adding batch. Please try again.")
               /\ UNCHANGED <<dbVars, batches, formVars>>
          ELSE /\ (generates \/ lookupOk)
               /\ Cardinality(dbBatches) < MaxBatches
               /\ nextBatchId <= MaxBatchIds
               /\ dbBatches' = rowsAfter
               /\ nextBatchId' = nextBatchId + 1
               /\ dbBatchStrains' = strainsAfter
               /\ batches' = loadBatches(loadMode, rowsAfter, strainsAfter, batches)
               /\ newBatch' = EmptyForm
               /\ batchStrains' = <<>>
               /\ showAddModal' = FALSE
               /\ lastOp' = Op("addBatch", nextBatchId,
                               lookupCalls \o
                               <<Call("insert batches", TRUE),
                                 Call("insert batch_strains", assignmentsOk),
                                 Call("select batches", loadMode # "fail")>>,
                               "")
               /\ UNCHANGED <<dbSummaries, dbDetails, nextSummaryId,
                              selectedStrain, lightsForStrain, percentageForStrain>>
    /\ UNCHANGED harvestVars
    /\ UNCHANGED facilityVars
    /\ UNCHANGED concurrentVars

----------------------------------------------------------------------------
\* The batch list: status changes and deletion.

\* The controls of the list can be clicked: no modal overlay (fixed inset-0)
\* covers the page.
ListReachable == ~showAddModal /\ ~showHarvestModal

\* One HarvestData entry with zero weights and prices.
EmptyHarvestEntry(strainId) ==
    [strain_id |-> strainId,
     bigs_lbs |-> 0, smalls_lbs |-> 0, micros_lbs |-> 0,
     bigs_price_per_lb |-> 0, smalls_price_per_lb |-> 0,
     micros_price_per_lb |-> 0]

\* initializeHarvestData: the harvestData it sets for a batch of the list,
\* one entry per assignment, or one for the primary strain when the batch
\* carries no assignments.
initializeHarvestData(batch) ==
    IF batch.batch_strains # <<>>
    THEN [i \in 1..Len(batch.batch_strains) |->
             EmptyHarvestEntry(batch.batch_strains[i].strain_id)]
    ELSE <<EmptyHarvestEntry(batch.strain_id)>>

\* Fault: initializeHarvestData leaves viewingExistingHarvest as it is.
ViewingKept(viewing) == viewing

\* setViewingExistingHarvest(false) of initializeHarvestData.
ViewingAfterInitialize(viewing) == FALSE

\* Fault: an update that refuses to leave a terminal status.
UpdateStatusUnlessTerminal(rows, batchId, status) ==
    {IF b.id = batchId /\ b.status \notin {"harvested", "archived"}
     THEN [b EXCEPT !.status = status] ELSE b : b \in rows}

\* .update({ status }).eq("id", batchId) on the batches table.
UpdateStatus(rows, batchId, status) ==
    {IF b.id = batchId THEN [b EXCEPT !.status = status] ELSE b : b \in rows}

\* Fault: a request for harvested is written like any other status.
GatesHarvestNever(newStatus) == FALSE

\* newStatus === "harvested": the request opens the harvest modal first.
GatesHarvest(newStatus) == newStatus = "harvested"

\* handleUpdateBatchStatus (status select of a listed batch; onChange fires
\* for a value other than the one shown).
handleUpdateBatchStatus(batchId, newStatus, updateOk, loadMode) ==
    /\ ListReachable
    /\ \E shown \in batches : shown.id = batchId /\ shown.status # newStatus
    /\ LET found == {b \in batches : b.id = batchId}
           rowsAfter == UpdateStatus(dbBatches, batchId, newStatus)
       IN IF GatesHarvest(newStatus) /\ found # {}
          THEN LET batch == CHOOSE b \in found : TRUE
               IN /\ updateOk /\ loadMode = "full"
                  /\ selectedBatchForHarvest' = <<batch>>
                  /\ harvestData' = initializeHarvestData(batch)
                  /\ harvestSummary' = <<>>
                  /\ harvestDataSaved' = FALSE
                  /\ viewingExistingHarvest' =
                         ViewingAfterInitialize(viewingExistingHarvest)
                  /\ showHarvestModal' = TRUE
                  /\ lastOp' = Op("updateStatus", batchId, <<>>, "")
                  /\ UNCHANGED <<dbVars, batches>>
          ELSE IF ~updateOk
          THEN /\ loadMode = "full"
               /\ lastOp' = Op("updateStatus", batchId,
                               <<Call("update batches", FALSE)>>,
                               "Error updating batch status. Please try again.")
               /\ UNCHANGED <<dbVars, batches, harvestVars>>
          ELSE /\ dbBatches' = rowsAfter
               /\ batches' = loadBatches(loadMode, rowsAfter, dbBatchStrains, batches)
               /\ lastOp' = Op("updateStatus", batchId,
                               <<Call("update batches", TRUE),
                                 Call("select batches", loadMode # "fail")>>,
                               "")
               /\ UNCHANGED <<dbBatchStrains, dbSummaries, dbDetails, nextBatchId,
                              nextSummaryId, harvestVars>>
    /\ UNCHANGED formVars
    /\ UNCHANGED facilityVars
    /\ UNCHANGED concurrentVars

\* The referential cascade of the store: deleting a batch row deletes its
\* batch_strains rows; harvest rows are not touched.
CascadeBatchStrains(strainRows, batchId) ==
    {a \in strainRows : a.batch_id # batchId}

\* handleDeleteBatch (Delete button of a listed batch, confirmed).
handleDeleteBatch(batchId, deleteOk, loadMode) ==
    /\ ListReachable
    /\ \E shown \in batches : shown.id = batchId
    /\ LET rowsAfter == {b \in dbBatches : b.id # batchId}
           strainsAfter == CascadeBatchStrains(dbBatchStrains, batchId)
       IN IF ~deleteOk
          THEN /\ loadMode = "full"
               /\ lastOp' = Op("deleteBatch", batchId,
                               <<Call("delete batches", FALSE)>>,
                               "Error deleting batch. Please try again.")
               /\ UNCHANGED <<dbVars, batches>>
          ELSE /\ dbBatches' = rowsAfter
               /\ dbBatchStrains' = strainsAfter
               /\ batches' = loadBatches(loadMode, rowsAfter, strainsAfter, batches)
               /\ lastOp' = Op("deleteBatch", batchId,
                               <<Call("delete batches", TRUE),
                                 Call("select batches", loadMode # "fail")>>,
                               "")
               /\ UNCHANGED <<dbSummaries, dbDetails, nextBatchId, nextSummaryId>>
    /\ UNCHANGED <<formVars, harvestVars>>
    /\ UNCHANGED facilityVars
    /\ UNCHANGED concurrentVars

----------------------------------------------------------------------------
\* The harvest modal.

\* The numeric fields of a HarvestData entry.
HarvestFields ==
    {"bigs_lbs", "smalls_lbs", "micros_lbs",
     "bigs_price_per_lb", "smalls_price_per_lb", "micros_price_per_lb"}

\* updateHarvestData (onChange of a weight or price input of a strain; the
\* inputs are shown unless a saved record is being viewed).
updateHarvestData(strainId, field, value) ==
    /\ showHarvestModal
    /\ ~viewingExistingHarvest
    /\ \E i \in 1..Len(harvestData) :
          harvestData[i].strain_id = strainId /\ harvestData[i][field] # value
    /\ harvestData' =
          [i \in 1..Len(harvestData) |->
              IF harvestData[i].strain_id = strainId
              THEN [harvestData[i] EXCEPT ![field] = value]
              ELSE harvestData[i]]
    /\ lastOp' = Op("updateHarvestData", 0, <<>>, "")
    /\ UNCHANGED <<dbVars, batches, formVars, showHarvestModal,
                   selectedBatchForHarvest, harvestSummary, harvestDataSaved,
                   viewingExistingHarvest>>
    /\ UNCHANGED facilityVars
    /\ UNCHANGED concurrentVars

RECURSIVE TotalHarvest(_)
\* reduce over harvestData of bigs + smalls + micros
TotalHarvest(data) ==
    IF data = <<>> THEN 0
    ELSE Head(data).bigs_lbs + Head(data).smalls_lbs + Head(data).micros_lbs
         + TotalHarvest(Tail(data))

RECURSIVE TotalRevenueBigsPrice(_)
\* Fault: every grade is sold at the price of the bigs.
TotalRevenueBigsPrice(data) ==
    IF data = <<>> THEN 0
    ELSE (Head(data).bigs_lbs + Head(data).smalls_lbs + Head(data).micros_lbs)
             * Head(data).bigs_price_per_lb
         + TotalRevenueBigsPrice(Tail(data))

RECURSIVE TotalRevenue(_)
\* reduce over harvestData of weight * price per grade
TotalRevenue(data) ==
    IF data = <<>> THEN 0
    ELSE Head(data).bigs_lbs * Head(data).bigs_price_per_lb
         + Head(data).smalls_lbs * Head(data).smalls_price_per_lb
         + Head(data).micros_lbs * Head(data).micros_price_per_lb
         + TotalRevenue(Tail(data))

\* The result of a JavaScript division a / b as the pair of its operands;
\* den = 0 stands for a result that is not a finite number (Infinity, NaN).
Quot(a, b) == [num |-> a, den |-> b]

\* The number n as a quotient.
Whole(n) == [num |-> n, den |-> 1]

\* Fault: the division without its guard.
UnguardedQuot(a, b) == Quot(a, b)

\* b > 0 ? a / b : 0
GuardedQuot(a, b) == IF b > 0 THEN Quot(a, b) ELSE Whole(0)

\* Fault: the lights of the batch as the denominator, whatever they are.
LightsOrSame(selected) == IF selected = <<>> THEN 0 ELSE selected[1].lights_assigned

\* selectedBatchForHarvest?.lights_assigned || 1
LightsOrOne(selected) ==
    IF selected # <<>> /\ selected[1].lights_assigned # 0
    THEN selected[1].lights_assigned
    ELSE 1

\* Fault: the days from the start date to the day of now, without the
\* ceiling.
DaysActiveFloor(startDate, now) ==
    DayNumber(now.date) - DayNumber(startDate)

\* Math.ceil((today - start) / one day): start is the midnight (UTC) that
\* begins the start date, today the instant now.
DaysActive(startDate, now) ==
    DayNumber(now.date) - DayNumber(startDate)
        + (IF now.afterMidnight THEN 1 ELSE 0)

RECURSIVE SumAmounts(_)
\* costEntries.reduce((sum, entry) => sum + entry.amount, 0)
SumAmounts(entries) ==
    IF entries = {} THEN 0
    ELSE LET e == CHOOSE x \in entries : TRUE
         IN e.amount + SumAmounts(entries \ {e})

\* The rows the select of calculateCostToGrow returns:
\* .or(batch_id.eq, room_id.eq).gte("date", startDate).lte("date", today)
SelectCostEntries(batchId, roomId, startDate, now) ==
    {e \in costEntries :
        /\ (e.batch_id = <<batchId>> \/ e.room_id = <<roomId>>)
        /\ DayNumber(e.date) >= DayNumber(startDate)
        /\ DayNumber(e.date) <= DayNumber(now.date)}

\* Fault: a failed fetch of the cost entries still gives the electricity
\* estimate.
calculateCostToGrowPartial(batchId, roomId, startDate, now, costOk) ==
    LET room == FindRoom(roomId)
        totalLights == IF room = <<>> THEN 0 ELSE OrZero(room[1].lights)
        totalElectricityCost ==
            totalLights * ElectricityCostPerLightPerDay * DaysActive(startDate, now)
    IN IF ~costOk THEN totalElectricityCost
       ELSE SumAmounts(SelectCostEntries(batchId, roomId, startDate, now))
            + totalElectricityCost

\* calculateCostToGrow, in cents; costOk is whether the select of the cost
\* entries succeeded.
calculateCostToGrow(batchId, roomId, startDate, now, costOk) ==
    LET daysActive == DaysActive(startDate, now)
        room == FindRoom(roomId)
        totalLights == IF room = <<>> THEN 0 ELSE OrZero(room[1].lights)
        totalCosts == SumAmounts(SelectCostEntries(batchId, roomId, startDate, now))
        totalElectricityCost ==
            totalLights * ElectricityCostPerLightPerDay * daysActive
    IN IF ~costOk THEN 0
       ELSE totalCosts + totalElectricityCost

\* calculateHarvestSummary: the totals of the summary it sets for the
\* selected batch (<<>> when there is none); revenue in dollars, cost and
\* profit in cents.  The ratios per light and per pound are not carried.
calculateHarvestSummary(data, selected, now, costOk) ==
    LET totalHarvest == TotalHarvest(data)
        totalRevenue == TotalRevenue(data)
        costToGrow ==
            IF selected # <<>>
            THEN calculateCostToGrow(selected[1].id, selected[1].room_id,
                                     selected[1].start_date, now, costOk)
            ELSE 0
        totalLights == LightsOrOne(selected)
        profitLoss == 100 * totalRevenue - costToGrow
    IN [total_harvest_lbs |-> totalHarvest,
        yield_per_light |-> Quot(totalHarvest, totalLights),
        total_revenue |-> totalRevenue,
        revenue_per_light |-> Quot(totalRevenue, totalLights),
        cost_to_grow |-> costToGrow,
        profit_loss |-> profitLoss,
        cost_per_lb |-> GuardedQuot(costToGrow, totalHarvest),
        net_income_per_lb |-> GuardedQuot(profitLoss, totalHarvest),
        \* (profitLoss / totalRevenue) * 100: cents by dollars is percent
        net_income_sales_ratio |-> GuardedQuot(profitLoss, totalRevenue),
        harvest_data |-> data]

\* Ids of the harvest_summaries rows of a batch.
SummaryIdsOf(summaries, batchId) ==
    {s.id : s \in {x \in summaries : x.batch_id = batchId}}

\* .delete().in("harvest_summary_id", summaryIds) on harvest_details.
DeleteDetails(details, summaryIds) ==
    {d \in details : d.harvest_summary_id \notin summaryIds}

\* The foreign key of harvest_details on harvest_summaries: a summary row
\* that a detail row references cannot be deleted.
Referenced(details, summaryIds) ==
    \E d \in details : d.harvest_summary_id \in summaryIds

\* .delete().eq("batch_id", batchId) on harvest_summaries.
DeleteSummaries(summaries, batchId) ==
    {s \in summaries : s.batch_id # batchId}

\* The harvest_details rows handleSaveHarvestData inserts.
HarvestDetails(summaryId, data) ==
    { [harvest_summary_id |-> summaryId,
       idx |-> i,
       strain_id |-> data[i].strain_id,
       bigs_lbs |-> data[i].bigs_lbs,
       smalls_lbs |-> data[i].smalls_lbs,
       micros_lbs |-> data[i].micros_lbs] : i \in 1..Len(data) }

\* setBatches((prev) => prev.map(...)) of handleSaveHarvestData.
MarkHarvested(list, batchId) ==
    {IF b.id = batchId THEN [b EXCEPT !.status = "harvested"] ELSE b : b \in list}

\* Fault: the status update is issued as soon as the summary is inserted.
ReachesStatusUpdateAfterSummary(summaryOk, detailsOk) == summaryOk

\* Fault: the status update is issued whatever the inserts returned.
ReachesStatusUpdateAlways(summaryOk, detailsOk) == TRUE

\* Whether a run gets past the returns that follow a failed summary insert
\* and a failed detail insert, and so issues the status update.
ReachesStatusUpdate(summaryOk, detailsOk) == summaryOk /\ detailsOk

\* handleSaveHarvestData ("Calculate & Save Harvest Data", offered while the
\* data is neither saved nor a saved record being viewed).  The parameters
\* are the instant of the run and the outcomes of its store calls in the
\* order it issues them; the outcome of a call the run does not issue is TRUE.
handleSaveHarvestData(now, costOk, fetchOk, delDetailsOk, delSummariesOk, summaryOk, detailsOk, statusOk) ==
    /\ showHarvestModal
    /\ selectedBatchForHarvest # <<>>
    /\ ~viewingExistingHarvest
    /\ ~harvestDataSaved
    /\ LET batch == selectedBatchForHarvest[1]
           summary == calculateHarvestSummary(harvestData, selectedBatchForHarvest,
                                              now, costOk)
           \* 0. clean up the existing harvest data of the batch; an error of
           \* these calls is logged and the run goes on
           existingSummaries ==
               IF fetchOk THEN SummaryIdsOf(dbSummaries, batch.id) ELSE {}
           deletesDetails == fetchOk /\ existingSummaries # {}
           details0 ==
               IF deletesDetails /\ delDetailsOk
               THEN DeleteDetails(dbDetails, existingSummaries)
               ELSE dbDetails
           blocked == Referenced(details0, SummaryIdsOf(dbSummaries, batch.id))
           delSummariesDone == delSummariesOk /\ ~blocked
           summaries0 ==
               IF delSummariesDone
               THEN DeleteSummaries(dbSummaries, batch.id)
               ELSE dbSummaries
           \* 1. the new summary row
           harvestSummaryData ==
               [id |-> nextSummaryId,
                batch_id |-> batch.id,
                total_harvest_lbs |-> summary.total_harvest_lbs,
                total_lights |-> batch.lights_assigned]
           \* 2. the detail rows
           harvestDetails == HarvestDetails(nextSummaryId, harvestData)
           \* 3. the status update; .single() fails when no row is returned
           rowExists == \E b \in dbBatches : b.id = batch.id
           issuesStatus == ReachesStatusUpdate(summaryOk, detailsOk)
           statusDone == issuesStatus /\ statusOk /\ rowExists
           calls ==
               <<Call("select cost_entries", costOk)>>
               \o <<Call("select harvest_summaries", fetchOk)>>
               \o (IF deletesDetails
                   THEN <<Call("delete harvest_details", delDetailsOk)>>
                   ELSE <<>>)
               \o <<Call("delete harvest_summaries", delSummariesDone)>>
               \o <<Call("insert harvest_summaries", summaryOk)>>
               \o (IF summaryOk
                   THEN <<Call("insert harvest_details", detailsOk)>>
                   ELSE <<>>)
               \o (IF issuesStatus
                   THEN <<Call("update batches", statusDone)>>
                   ELSE <<>>)
           alert ==
               IF ~summaryOk
               THEN "Error saving harvest summary. Please try again."
               ELSE IF ~detailsOk
               THEN "Error saving harvest details. Please try again."
               ELSE IF ~statusDone
               THEN "Error updating batch status. Please try again."
               ELSE ""
       IN /\ (deletesDetails \/ delDetailsOk)
          /\ (~blocked \/ ~delSummariesOk)
          /\ (summaryOk \/ detailsOk)
          /\ ((summaryOk /\ detailsOk) \/ statusOk)
          /\ (~(summaryOk /\ detailsOk) \/ rowExists \/ ~statusOk)
          /\ (summaryOk => nextSummaryId <= MaxSummaries)
          /\ harvestSummary' = <<summary>>
          /\ dbSummaries' =
                 IF summaryOk THEN summaries0 \cup {harvestSummaryData}
                 ELSE summaries0
          /\ nextSummaryId' =
                 IF summaryOk THEN nextSummaryId + 1 ELSE nextSummaryId
          /\ dbDetails' =
                 IF summaryOk /\ detailsOk THEN details0 \cup harvestDetails
                 ELSE details0
          /\ dbBatches' =
                 IF statusDone THEN UpdateStatus(dbBatches, batch.id, "harvested")
                 ELSE dbBatches
          /\ batches' =
                 IF statusDone /\ alert = "" THEN MarkHarvested(batches, batch.id)
                 ELSE batches
          /\ harvestDataSaved' = (statusDone /\ alert = "")
          /\ lastOp' = Op("saveHarvest", batch.id, calls, alert)
    /\ UNCHANGED <<dbBatchStrains, nextBatchId, formVars, showHarvestModal,
                   selectedBatchForHarvest, harvestData, viewingExistingHarvest>>
    /\ UNCHANGED facilityVars
    /\ UNCHANGED concurrentVars

\* Backdrop click and the X button of the harvest modal: they leave
\* harvestDataSaved and viewingExistingHarvest as they are.
CloseHarvestBackdrop ==
    /\ showHarvestModal
    /\ selectedBatchForHarvest # <<>>
    /\ showHarvestModal' = FALSE
    /\ selectedBatchForHarvest' = <<>>
    /\ harvestData' = <<>>
    /\ harvestSummary' = <<>>
    /\ lastOp' = Op("closeHarvestBackdrop", 0, <<>>, "")
    /\ UNCHANGED <<dbVars, batches, formVars, harvestDataSaved,
                   viewingExistingHarvest>>
    /\ UNCHANGED facilityVars
    /\ UNCHANGED concurrentVars

\* The footer button that closes the modal: Close while a saved record is
\* viewed, Close after a save, Cancel otherwise.
CloseHarvestButton ==
    /\ showHarvestModal
    /\ selectedBatchForHarvest # <<>>
    /\ showHarvestModal' = FALSE
    /\ selectedBatchForHarvest' = <<>>
    /\ harvestData' = <<>>
    /\ harvestSummary' = <<>>
    /\ harvestDataSaved' = FALSE
    /\ viewingExistingHarvest' =
           IF ~viewingExistingHarvest /\ harvestDataSaved
           THEN viewingExistingHarvest
           ELSE FALSE
    /\ lastOp' = Op(IF viewingExistingHarvest THEN "closeViewedHarvest"
                    ELSE IF harvestDataSaved THEN "closeSavedHarvest"
                    ELSE "cancelHarvest", 0, <<>>, "")
    /\ UNCHANGED <<dbVars, batches, formVars>>
    /\ UNCHANGED facilityVars
    /\ UNCHANGED concurrentVars

RECURSIVE SetToSeq(_)
\* The rows of a select in the order the store returns them (insertion order).
SetToSeq(S) ==
    IF S = {} THEN <<>>
    ELSE LET x == CHOOSE y \in S : \A z \in S : y.idx <= z.idx
         IN <<x>> \o SetToSeq(S \ {x})

\* detailsData.map(...) of loadExistingHarvestData: prices are not stored.
HarvestDataFromDB(detailRows) ==
    LET rows == SetToSeq(detailRows)
    IN [i \in 1..Len(rows) |->
          [strain_id |-> rows[i].strain_id,
           bigs_lbs |-> rows[i].bigs_lbs,
           smalls_lbs |-> rows[i].smalls_lbs,
           micros_lbs |-> rows[i].micros_lbs,
           bigs_price_per_lb |-> 0, smalls_price_per_lb |-> 0,
           micros_price_per_lb |-> 0]]

\* Click on the badge of a batch listed as harvested: selects the batch and
\* runs loadExistingHarvestData; the modal opens when that returns true.
ViewExistingHarvest(batchId, checkOk, summaryOk, detailsOk) ==
    /\ ListReachable
    /\ \E shown \in batches : shown.id = batchId /\ shown.status = "harvested"
    /\ LET batch == CHOOSE b \in batches : b.id = batchId
           mine == {x \in dbSummaries : x.batch_id = batchId}
           \* .maybeSingle() fails on more than one row
           checkDone == checkOk /\ Cardinality(mine) <= 1
           summaryData == CHOOSE x \in mine : TRUE
           detailRows == {d \in dbDetails : d.harvest_summary_id = summaryData.id}
           harvestDataFromDB == HarvestDataFromDB(detailRows)
           loaded == checkDone /\ mine # {} /\ summaryOk /\ detailsOk
           calls ==
               <<Call("select harvest_summaries", checkDone)>>
               \o (IF checkDone /\ mine # {}
                   THEN <<Call("select harvest_summaries", summaryOk)>>
                        \o (IF summaryOk
                            THEN <<Call("select harvest_details", detailsOk)>>
                            ELSE <<>>)
                   ELSE <<>>)
       IN /\ (Cardinality(mine) <= 1 \/ ~checkOk)
          /\ ((checkDone /\ mine # {}) \/ summaryOk)
          /\ ((checkDone /\ mine # {} /\ summaryOk) \/ detailsOk)
          /\ selectedBatchForHarvest' = <<batch>>
          /\ IF loaded
             THEN /\ harvestData' = harvestDataFromDB
                  /\ harvestSummary' =
                         <<[total_harvest_lbs |-> summaryData.total_harvest_lbs,
                            total_revenue |-> TotalHarvest(harvestDataFromDB) * 100,
                            harvest_data |-> harvestDataFromDB]>>
                  /\ harvestDataSaved' = TRUE
                  /\ viewingExistingHarvest' = TRUE
                  /\ showHarvestModal' = TRUE
                  /\ lastOp' = Op("viewHarvest", batchId, calls, "")
             ELSE /\ lastOp' = Op("viewHarvest", batchId, calls,
                                  "No harvest data found for this batch.")
                  /\ UNCHANGED <<harvestData, harvestSummary, harvestDataSaved,
                                 viewingExistingHarvest, showHarvestModal>>
    /\ UNCHANGED <<dbVars, batches, formVars>>
    /\ UNCHANGED facilityVars
    /\ UNCHANGED concurrentVars

----------------------------------------------------------------------------
\* The facility page (Facility): the room list, the creation and the
\* deletion of rooms.  Whether the store carries out a delete is an outcome
\* of the call; a delete it carries out leaves the batches rows as they are.

\* One element of processedRooms: the row with has_current_batch, whether
\* one of the room's batches is active.
ProcessRoom(room, batchRows) ==
    [id |-> room.id,
     name |-> room.name,
     lights |-> room.lights,
     status |-> room.status,
     has_current_batch |->
         \E batch \in batchRows : batch.room_id = room.id /\ batch.status = "active"]

\* loadRooms: the new value of the rooms state; a failed select is logged
\* and the state is kept.
loadRooms(loadOk, roomRows, batchRows, current) ==
    IF loadOk THEN {ProcessRoom(r, batchRows) : r \in roomRows} ELSE current

\* A load of the facility page: useState starts over and loadRooms runs.
MountFacility(loadOk) ==
    /\ facilityRooms' = loadRooms(loadOk, dbRooms, dbBatches, {})
    /\ lastOp' = Op("mountFacility", "", <<Call("select rooms", loadOk)>>, "")
    /\ UNCHANGED <<dbVars, dbRooms, batches, formVars, harvestVars>>
    /\ UNCHANGED concurrentVars

\* parseInt(newRoom.lights) || null for a lights field that is empty (<<>>)
\* or holds the number n (<<n>>).
ParseLightsOrNull(text) == IF Truthy(text) THEN text ELSE <<>>

\* Ids the store gives the rooms that are added.
NewRoomIds == {"rE"}

\* handleAddRoom (submit of the add-room form with a name and a lights text).
handleAddRoom(name, lightsText, insertOk, loadOk) ==
    /\ \E id \in NewRoomIds : id \notin {r.id : r \in dbRooms}
    /\ LET id == CHOOSE x \in NewRoomIds : x \notin {r.id : r \in dbRooms}
           row == [id |-> id, name |-> name,
                   lights |-> ParseLightsOrNull(lightsText), status |-> "active"]
           rowsAfter == dbRooms \cup {row}
       IN IF ~insertOk
          THEN /\ loadOk
               /\ lastOp' = Op("addRoom", "", <<Call("insert rooms", FALSE)>>,
                               "Error adding room. Please try again.")
               /\ UNCHANGED facilityVars
          ELSE /\ dbRooms' = rowsAfter
               /\ facilityRooms' = loadRooms(loadOk, rowsAfter, dbBatches, facilityRooms)
               /\ lastOp' = Op("addRoom", id,
                               <<Call("insert rooms", TRUE),
                                 Call("select rooms", loadOk)>>, "")
    /\ UNCHANGED <<dbVars, batches, formVars, harvestVars>>
    /\ UNCHANGED concurrentVars

\* Fault: the delete is issued whether or not the room has a current batch.
BlocksDeleteNever(room) == FALSE

\* room.has_current_batch: the listed room cannot be deleted.
BlocksDelete(room) == room.has_current_batch

\* handleDeleteRoom (Delete button of a listed room).
handleDeleteRoom(id, deleteOk, loadOk) ==
    /\ \E r \in facilityRooms : r.id = id
    /\ LET room == CHOOSE r \in facilityRooms : r.id = id
           rowsAfter == {r \in dbRooms : r.id # id}
       IN IF BlocksDelete(room)
          THEN /\ deleteOk /\ loadOk
               /\ lastOp' = Op("deleteRoom", id, <<>>, "")
               /\ UNCHANGED facilityVars
          ELSE IF ~deleteOk
          THEN /\ loadOk
               /\ lastOp' = Op("deleteRoom", id, <<Call("delete rooms", FALSE)>>,
                               "Error deleting room. Please try again.")
               /\ UNCHANGED facilityVars
          ELSE /\ dbRooms' = rowsAfter
               /\ facilityRooms' = loadRooms(loadOk, rowsAfter, dbBatches, facilityRooms)
               /\ lastOp' = Op("deleteRoom", id,
                               <<Call("delete rooms", TRUE),
                                 Call("select rooms", loadOk)>>, "")
    /\ UNCHANGED <<dbVars, batches, formVars, harvestVars>>
    /\ UNCHANGED concurrentVars

----------------------------------------------------------------------------
\* The page: every handler the user can trigger.

\* Values the user types into the add-room form.
TypedRoomNames == { <<"N","e","w">> }

TypedRoomLights == {<<>>, <<0>>, <<8>>}

\* Ids of the rooms the store has held.
RoomIds == {r.id : r \in rooms} \cup NewRoomIds

\* Numbers the user types into the weight and price inputs of a strain.
TypedHarvestValue(strainId, field) ==
    IF strainId = "s1"
    THEN CASE field = "bigs_lbs" -> 10
           [] field = "smalls_lbs" -> 5
           [] field = "micros_lbs" -> 2
           [] field = "bigs_price_per_lb" -> 20
           [] field = "smalls_price_per_lb" -> 10
           [] field = "micros_price_per_lb" -> 5
    ELSE CASE field = "bigs_lbs" -> 4
           [] field = "smalls_lbs" -> 1
           [] field = "micros_lbs" -> 3
           [] field = "bigs_price_per_lb" -> 7
           [] field = "smalls_price_per_lb" -> 2
           [] field = "micros_price_per_lb" -> 9

LightsInputs == {<<>>} \cup {<<n>> : n \in {-1, 0, 2, 15}}

BatchIds == 1..MaxBatches

Next ==
    \/ OpenAddModal
    \/ CloseAddModal
    \/ \E value \in {""} \cup {r.id : r \in SelectableRooms}, ok \in BOOLEAN :
          SelectRoom(value, ok)
    \/ \E value \in {<<>>} \cup TypedCodes : SetBatchCode(value)
    \/ \E value \in {"", "d1"} : SetStartDate(value)
    \/ \E value \in {"planned", "active"} : SetInitialStatus(value)
    \/ \E value \in {""} \cup strains : SelectStrain(value)
    \/ \E value \in LightsInputs : LightsInput(value)
    \/ handleAddStrainToBatch
    \/ \E index \in 1..Cardinality(strains) : removeStrainFromBatch(index)
    \/ \E lookupOk, batchOk, assignmentsOk \in BOOLEAN, mode \in LoadModes :
          handleAddBatch(lookupOk, batchOk, assignmentsOk, mode)
    \/ \E id \in BatchIds, status \in Statuses, ok \in BOOLEAN, mode \in LoadModes :
          handleUpdateBatchStatus(id, status, ok, mode)
    \/ \E id \in BatchIds, ok \in BOOLEAN, mode \in LoadModes :
          handleDeleteBatch(id, ok, mode)
    \/ \E now \in Instants, costOk, f1, f2, f3, f4, f5, f6 \in BOOLEAN :
          handleSaveHarvestData(now, costOk, f1, f2, f3, f4, f5, f6)
    \/ CloseHarvestBackdrop
    \/ CloseHarvestButton
    \/ \E id \in BatchIds, c, s, d \in BOOLEAN : ViewExistingHarvest(id, c, s, d)
    \/ \E strainId \in strains, field \in HarvestFields :
          \E value \in {0, TypedHarvestValue(strainId, field)} :
             updateHarvestData(strainId, field, value)
    \/ \E mode \in LoadModes : Mount(mode)
    \/ \E loadOk \in BOOLEAN : MountFacility(loadOk)
    \/ \E name \in TypedRoomNames, lightsText \in TypedRoomLights,
          insertOk, loadOk \in BOOLEAN :
          handleAddRoom(name, lightsText, insertOk, loadOk)
    \/ \E id \in RoomIds, deleteOk, loadOk \in BOOLEAN :
          handleDeleteRoom(id, deleteOk, loadOk)

Spec == Init /\ [][Next]_vars

----------------------------------------------------------------------------
\* Strain allocation in the add-batch form, up to the creation of
\* MaxAllocBatches batches: rooms, lights, strains, the start date and the submit.

\* Fewer than MaxAllocBatches batches have been created.
Allocating == nextBatchId <= MaxAllocBatches

NextAlloc ==
    \/ Allocating /\ OpenAddModal
    \/ Allocating /\ \E value \in {r.id : r \in SelectableRooms} : SelectRoom(value, TRUE)
    \/ Allocating /\ SetStartDate("d1")
    \/ Allocating /\ \E value \in WorkedStrains : SelectStrain(value)
    \/ Allocating /\ \E n \in TypedLights(newBatch.room_id) : LightsInput(<<n>>)
    \/ Allocating /\ handleAddStrainToBatch
    \/ Allocating /\ \E index \in 1..Cardinality(strains) : removeStrainFromBatch(index)
    \/ Allocating /\ \E batchOk, assignmentsOk \in BOOLEAN, mode \in LoadModes :
                        handleAddBatch(TRUE, batchOk, assignmentsOk, mode)

SpecAlloc == Init /\ [][NextAlloc]_vars

----------------------------------------------------------------------------
\* Batch codes: room selection, the code field and the creation of batches
\* that each carry one strain with no lights.

NextCode ==
    \/ OpenAddModal
    \/ \E value \in {r.id : r \in SelectableRooms}, ok \in BOOLEAN :
          SelectRoom(value, ok)
    \/ \E value \in {<<>>} \cup TypedCodes : SetBatchCode(value)
    \/ SetStartDate("d1")
    \/ SelectStrain("s1")
    \/ LightsInput(<<0>>)
    \/ handleAddStrainToBatch
    \/ \E lookupOk, batchOk \in BOOLEAN :
          handleAddBatch(lookupOk, batchOk, TRUE, "full")

SpecCode == Init /\ [][NextCode]_vars

----------------------------------------------------------------------------
\* The batch list and the harvest modal over a store that holds two batches
\* of room rA, as the page leaves them: batch 1, planned, with two strain
\* assignments; batch 2, whose assignment insert failed, harvested with its
\* summary and detail row.  The user works on batch 1 and may view the
\* harvest of either.

SeedList1 ==
    << [strain_id |-> "s1", lights_assigned |-> 15, percentage |-> 938],
       [strain_id |-> "s2", lights_assigned |-> 1, percentage |-> 63] >>

SeedBatches ==
    { [id |-> 1, room_id |-> "rA", strain_id |-> "s1",
       batch_code |-> <<"R","7","-","2","0","2","6","-","0","1">>,
       start_date |-> "d1", status |-> "planned"],
      [id |-> 2, room_id |-> "rA", strain_id |-> "s1",
       batch_code |-> <<"R","7","-","2","0","2","6","-","0","2">>,
       start_date |-> "d1", status |-> "harvested"] }

SeedSummaries ==
    { [id |-> 1, batch_id |-> 2, total_harvest_lbs |-> 0, total_lights |-> 16] }

SeedDetails == HarvestDetails(1, <<EmptyHarvestEntry("s1")>>)

InitHarvest ==
    /\ dbRooms = rooms
    /\ dbBatches = SeedBatches
    /\ dbBatchStrains = StrainAssignments(1, SeedList1)
    /\ dbSummaries = SeedSummaries
    /\ dbDetails = SeedDetails
    /\ nextBatchId = 3
    /\ nextSummaryId = 2
    /\ batches = loadBatches("full", SeedBatches, StrainAssignments(1, SeedList1), {})
    /\ showAddModal = FALSE
    /\ newBatch = EmptyForm
    /\ batchStrains = <<>>
    /\ selectedStrain = ""
    /\ lightsForStrain = <<>>
    /\ percentageForStrain = <<>>
    /\ showHarvestModal = FALSE
    /\ selectedBatchForHarvest = <<>>
    /\ harvestData = <<>>
    /\ harvestSummary = <<>>
    /\ harvestDataSaved = FALSE
    /\ viewingExistingHarvest = FALSE
    /\ facilityRooms = {}
    /\ roomLookups = {}
    /\ otherForm = ClosedForm
    /\ saveRuns = {}
    /\ lastOp = Op("mount", 0, <<>>, "")

\* The batch the user changes in SpecHarvest.
WorkedBatches == {1}

\* The instant at which the user saves in SpecHarvest.
SaveInstants == { [date |-> "d3", afterMidnight |-> TRUE] }

NextHarvest ==
    \/ \E id \in WorkedBatches, status \in Statuses, ok \in BOOLEAN,
          mode \in LoadModes :
          handleUpdateBatchStatus(id, status, ok, mode)
    \/ \E id \in WorkedBatches, ok \in BOOLEAN, mode \in LoadModes :
          handleDeleteBatch(id, ok, mode)
    \/ \E now \in SaveInstants, costOk, f1, f2, f3, f4, f5, f6 \in BOOLEAN :
          handleSaveHarvestData(now, costOk, f1, f2, f3, f4, f5, f6)
    \/ CloseHarvestBackdrop
    \/ CloseHarvestButton
    \/ \E id \in BatchIds, c, s, d \in BOOLEAN : ViewExistingHarvest(id, c, s, d)

SpecHarvest == InitHarvest /\ [][NextHarvest]_vars

\* The creation of the two batches and the harvest of batch 2 that
\* InitHarvest starts from, followed by a reload of the page.
NextSeed ==
    \/ OpenAddModal
    \/ SelectRoom("rA", TRUE)
    \/ SetStartDate("d1")
    \/ \E value \in WorkedStrains : SelectStrain(value)
    \/ \E n \in TypedLights(newBatch.room_id) : LightsInput(<<n>>)
    \/ handleAddStrainToBatch
    \/ \E assignmentsOk \in BOOLEAN : handleAddBatch(TRUE, TRUE, assignmentsOk, "full")
    \/ handleUpdateBatchStatus(2, "harvested", TRUE, "full")
    \/ \E now \in SaveInstants :
          handleSaveHarvestData(now, TRUE, TRUE, TRUE, TRUE, TRUE, TRUE, TRUE)
    \/ CloseHarvestButton
    \/ Mount("full")

SpecSeed == Init /\ [][NextSeed]_vars

\* SpecSeed reaches the state InitHarvest starts from.
SeedReached == InitHarvest

SeedNotReached == ~SeedReached

----------------------------------------------------------------------------
\* Harvest economics over the seeded store: the user requests 'harvested'
\* for batch 1, fills in weights and prices, saves at some instant with every
\* write succeeding, and closes the modal.

NextEconomics ==
    \/ handleUpdateBatchStatus(1, "harvested", TRUE, "full")
    \/ /\ harvestSummary = <<>>
       /\ \E strainId \in strains, field \in HarvestFields :
             \E value \in {0, TypedHarvestValue(strainId, field)} :
                updateHarvestData(strainId, field, value)
    \/ \E now \in Instants, costOk \in BOOLEAN :
          handleSaveHarvestData(now, costOk, TRUE, TRUE, TRUE, TRUE, TRUE, TRUE)
    \/ CloseHarvestButton

SpecEconomics == InitHarvest /\ [][NextEconomics]_vars

----------------------------------------------------------------------------
\* The harvest ratios over the seeded store.  The room of the two batches
\* can be deleted on the facility page (neither batch is active); the next
\* reload of the batch list then finds no room for them, and batch 2, which
\* carries no assignments, is listed with 0 lights.

YieldFields == {"bigs_lbs", "bigs_price_per_lb"}

YieldBatches == {1, 2}

NextYield ==
    \/ MountFacility(TRUE)
    \/ handleDeleteRoom("rA", TRUE, TRUE)
    \/ \E id \in YieldBatches, status \in {"planned", "harvested"} :
          handleUpdateBatchStatus(id, status, TRUE, "full")
    \/ /\ harvestSummary = <<>>
       /\ \E strainId \in strains, field \in YieldFields :
             \E value \in {0, TypedHarvestValue(strainId, field)} :
                updateHarvestData(strainId, field, value)
    \/ \E now \in SaveInstants, costOk \in BOOLEAN :
          handleSaveHarvestData(now, costOk, TRUE, TRUE, TRUE, TRUE, TRUE, TRUE)
    \/ CloseHarvestButton

SpecYield == InitHarvest /\ [][NextYield]_vars

----------------------------------------------------------------------------
\* Creations with generated codes and deletions in one room: the user
\* selects room rA, enters a strain and a start date, submits, and deletes
\* listed batches; every lookup and every write succeeds.

NextReuse ==
    \/ OpenAddModal
    \/ SelectRoom("rA", TRUE)
    \/ SetStartDate("d1")
    \/ SelectStrain("s1")
    \/ LightsInput(<<2>>)
    \/ handleAddStrainToBatch
    \/ handleAddBatch(TRUE, TRUE, TRUE, "full")
    \/ \E id \in 1..MaxBatchIds : handleDeleteBatch(id, TRUE, "full")

SpecReuse == Init /\ [][NextReuse]_vars

----------------------------------------------------------------------------
\* Rounded percentages in the room of 16 lights: the user selects room rA
\* and adds up to four strains, choosing the strain before typing its number
\* of lights, the percentage being the one the lights input calculates.

RoundingLights(strainId) ==
    CASE strainId = "s1" -> 1
      [] strainId = "s2" -> 3
      [] strainId = "s3" -> 5
      [] strainId = "s4" -> 7

NextRounding ==
    \/ Allocating /\ OpenAddModal
    \/ Allocating /\ SelectRoom("rA", TRUE)
    \/ Allocating /\ SetStartDate("d1")
    \/ Allocating /\ lightsForStrain = <<>>
                  /\ \E value \in strains : SelectStrain(value)
    \/ Allocating /\ selectedStrain # ""
                  /\ LightsInput(<<RoundingLights(selectedStrain)>>)
    \/ Allocating /\ handleAddStrainToBatch
    \/ Allocating /\ \E index \in 1..Cardinality(strains) : removeStrainFromBatch(index)
    \/ Allocating /\ handleAddBatch(TRUE, TRUE, TRUE, "full")

SpecRounding == Init /\ [][NextRounding]_vars

----------------------------------------------------------------------------
\* The room select with its await: the onChange handler sets room_id, calls
\* generateBatchCode and, when the count lookup has returned, writes the
\* code into whatever the form then holds.  roomLookups holds the calls in
\* flight, at most one per room; the store answers a lookup when it returns.

\* Room select onChange up to the await of generateBatchCode.
SelectRoomRequest(value) ==
    /\ showAddModal
    /\ value # newBatch.room_id
    /\ newBatch' = [newBatch EXCEPT !.room_id = value]
    /\ roomLookups' =
           IF value # "" /\ FindRoom(value) # <<>>
           THEN roomLookups \cup {value}
           ELSE roomLookups
    /\ lastOp' = Op("selectRoomRequest", 0, <<>>, "")
    /\ UNCHANGED <<dbVars, batches, showAddModal, batchStrains, selectedStrain,
                   lightsForStrain, percentageForStrain, harvestVars>>
    /\ UNCHANGED <<facilityVars, otherForm, saveRuns>>

\* The rest of the onChange handler of a selection of roomId, after the
\* await: setNewBatch((prev) => ({ ...prev, batch_code: batchCode })).
SelectRoomReturn(roomId, lookupOk) ==
    /\ roomId \in roomLookups
    /\ LET room == FindRoom(roomId)
           batchCode == generateBatchCode(room[1].name, room[1].id, dbBatches,
                                          lookupOk)
       IN newBatch' = [newBatch EXCEPT !.batch_code = batchCode]
    /\ roomLookups' = roomLookups \ {roomId}
    /\ lastOp' = Op("selectRoomReturn", 0, <<Call("select batches", lookupOk)>>, "")
    /\ UNCHANGED <<dbVars, batches, showAddModal, batchStrains, selectedStrain,
                   lightsForStrain, percentageForStrain, harvestVars>>
    /\ UNCHANGED <<facilityVars, otherForm, saveRuns>>

\* The rooms the user picks in SpecSelect: codes of rA start with R7, codes
\* of rC with R12.
PickedRooms == {"rA", "rC"}

NextSelect ==
    \/ Allocating /\ OpenAddModal
    \/ Allocating /\ \E value \in PickedRooms : SelectRoomRequest(value)
    \/ Allocating /\ \E roomId \in PickedRooms, lookupOk \in BOOLEAN :
          SelectRoomReturn(roomId, lookupOk)
    \/ Allocating /\ SetStartDate("d1")
    \/ Allocating /\ SelectStrain("s1")
    \/ Allocating /\ LightsInput(<<0>>)
    \/ Allocating /\ handleAddStrainToBatch
    \/ Allocating /\ handleAddBatch(TRUE, TRUE, TRUE, "full")

SpecSelect == Init /\ [][NextSelect]_vars

----------------------------------------------------------------------------
\* A second session of the page on the same store.  Its form is carried as
\* the room and the code it holds; its start date is d1 and its assignment
\* list is OtherStrains, so that its submit passes the required-field and
\* the allocation checks for room rA.  Its batch list is not carried.

OtherStrains == <<[strain_id |-> "s1", lights_assigned |-> 2, percentage |-> 125]>>

\* Room select onChange of the second session, with its lookup.
OtherSelectRoom(value, lookupOk) ==
    /\ value # otherForm.room_id
    /\ LET room == FindRoom(value)
       IN /\ room # <<>>
          /\ otherForm' =
                 [room_id |-> value,
                  batch_code |-> generateBatchCode(room[1].name, room[1].id,
                                                   dbBatches, lookupOk)]
    /\ lastOp' = Op("otherSelectRoom", 0, <<Call("select batches", lookupOk)>>, "")
    /\ UNCHANGED <<dbVars, batches, formVars, harvestVars>>
    /\ UNCHANGED <<facilityVars, roomLookups, saveRuns>>

\* handleAddBatch of the second session.
OtherAddBatch(lookupOk, batchOk) ==
    /\ otherForm.room_id # ""
    /\ validateBatchStrains(OtherStrains, otherForm.room_id).ok
    /\ LET room == FindRoom(otherForm.room_id)
           generates == otherForm.batch_code = <<>>
           batchCode ==
               CodeToStore(otherForm.batch_code,
                           generateBatchCode(room[1].name, room[1].id,
                                             dbBatches, lookupOk))
           lookupCalls ==
               IF generates THEN <<Call("select batches", lookupOk)>> ELSE <<>>
           batchData ==
               [id |-> nextBatchId,
                room_id |-> otherForm.room_id,
                strain_id |-> OtherStrains[1].strain_id,
                batch_code |-> batchCode,
                start_date |-> "d1",
                status |-> "planned"]
       IN IF ~batchOk
          THEN /\ (generates \/ lookupOk)
               /\ lastOp' = Op("otherAddBatch", 0,
                               lookupCalls \o <<Call("insert batches", FALSE)>>,
                               "Error adding batch. Please try again.")
               /\ UNCHANGED <<dbVars, otherForm>>
          ELSE /\ (generates \/ lookupOk)
               /\ Cardinality(dbBatches) < MaxBatches
               /\ nextBatchId <= MaxBatchIds
               /\ dbBatches' = dbBatches \cup {batchData}
               /\ nextBatchId' = nextBatchId + 1
               /\ dbBatchStrains' =
                      dbBatchStrains \cup StrainAssignments(nextBatchId, OtherStrains)
               /\ otherForm' = ClosedForm
               /\ lastOp' = Op("otherAddBatch", nextBatchId,
                               lookupCalls \o
                               <<Call("insert batches", TRUE),
                                 Call("insert batch_strains", TRUE)>>,
                               "")
               /\ UNCHANGED <<dbSummaries, dbDetails, nextSummaryId>>
    /\ UNCHANGED <<batches, formVars, harvestVars>>
    /\ UNCHANGED <<facilityVars, roomLookups, saveRuns>>

NextRace ==
    \/ OpenAddModal
    \/ SelectRoom("rA", TRUE)
    \/ SetStartDate("d1")
    \/ SelectStrain("s1")
    \/ LightsInput(<<2>>)
    \/ handleAddStrainToBatch
    \/ \E batchOk \in BOOLEAN : handleAddBatch(TRUE, batchOk, TRUE, "full")
    \/ OtherSelectRoom("rA", TRUE)
    \/ \E batchOk \in BOOLEAN : OtherAddBatch(TRUE, batchOk)

SpecRace == Init /\ [][NextRace]_vars

----------------------------------------------------------------------------
\* handleSaveHarvestData by its awaits.  The button stays on the page until
\* harvestDataSaved is set, so a second run can start while the first is
\* between two store calls.  A run is a record of saveRuns: the batch and
\* the harvest data of the render it was started from, the call it issues
\* next (pc), the summary ids its lookup returned and the id of the summary
\* row it inserted.  Every store call succeeds unless the foreign key of
\* harvest_details refuses it.

\* Runs of handleSaveHarvestData that are started.
MaxSaveRuns == 2

SaveRun(n, batch, data) ==
    [run |-> n, pc |-> "fetch", batch |-> batch, data |-> data,
     existing |-> {}, summary_id |-> 0, alert |-> ""]

\* The run r of saveRuns replaced by its next state.
Advance(r, next) == (saveRuns \ {r}) \cup {next}

\* Click on "Calculate & Save Harvest Data" up to the first store call of
\* the clean-up: calculateHarvestSummary has run.
SaveStart(now, costOk) ==
    /\ showHarvestModal
    /\ selectedBatchForHarvest # <<>>
    /\ ~viewingExistingHarvest
    /\ ~harvestDataSaved
    /\ Cardinality(saveRuns) < MaxSaveRuns
    /\ harvestSummary' =
           <<calculateHarvestSummary(harvestData, selectedBatchForHarvest,
                                     now, costOk)>>
    /\ saveRuns' = saveRuns \cup
           {SaveRun(Cardinality(saveRuns) + 1, selectedBatchForHarvest[1],
                    harvestData)}
    /\ lastOp' = Op("saveStart", selectedBatchForHarvest[1].id,
                    <<Call("select cost_entries", costOk)>>, "")
    /\ UNCHANGED <<dbVars, batches, formVars, showHarvestModal,
                   selectedBatchForHarvest, harvestData, harvestDataSaved,
                   viewingExistingHarvest>>
    /\ UNCHANGED <<facilityVars, roomLookups, otherForm>>

\* .from("harvest_summaries").select("id").eq("batch_id", ...)
SaveFetchExisting(r) ==
    /\ r \in saveRuns /\ r.pc = "fetch"
    /\ LET existingSummaries == SummaryIdsOf(dbSummaries, r.batch.id)
       IN saveRuns' = Advance(r, [r EXCEPT
              !.existing = existingSummaries,
              !.pc = IF existingSummaries # {} THEN "deleteDetails"
                     ELSE "deleteSummaries"])
    /\ lastOp' = Op("saveFetchExisting", r.batch.id,
                    <<Call("select harvest_summaries", TRUE)>>, "")
    /\ UNCHANGED <<dbVars, batches, formVars, harvestVars>>
    /\ UNCHANGED <<facilityVars, roomLookups, otherForm>>

\* .from("harvest_details").delete().in("harvest_summary_id", summaryIds)
SaveDeleteDetails(r) ==
    /\ r \in saveRuns /\ r.pc = "deleteDetails"
    /\ dbDetails' = DeleteDetails(dbDetails, r.existing)
    /\ saveRuns' = Advance(r, [r EXCEPT !.pc = "deleteSummaries"])
    /\ lastOp' = Op("saveDeleteDetails", r.batch.id,
                    <<Call("delete harvest_details", TRUE)>>, "")
    /\ UNCHANGED <<dbBatches, dbBatchStrains, dbSummaries, nextBatchId,
                   nextSummaryId, batches, formVars, harvestVars>>
    /\ UNCHANGED <<facilityVars, roomLookups, otherForm>>

\* .from("harvest_summaries").delete().eq("batch_id", ...): refused while a
\* detail row references a summary of the batch; the error is logged.
SaveDeleteSummaries(r) ==
    /\ r \in saveRuns /\ r.pc = "deleteSummaries"
    /\ LET blocked == Referenced(dbDetails, SummaryIdsOf(dbSummaries, r.batch.id))
       IN /\ dbSummaries' =
                 IF blocked THEN dbSummaries
                 ELSE DeleteSummaries(dbSummaries, r.batch.id)
          /\ lastOp' = Op("saveDeleteSummaries", r.batch.id,
                          <<Call("delete harvest_summaries", ~blocked)>>, "")
    /\ saveRuns' = Advance(r, [r EXCEPT !.pc = "insertSummary"])
    /\ UNCHANGED <<dbBatches, dbBatchStrains, dbDetails, nextBatchId,
                   nextSummaryId, batches, formVars, harvestVars>>
    /\ UNCHANGED <<facilityVars, roomLookups, otherForm>>

\* 1. .from("harvest_summaries").insert({...}).select().single()
SaveInsertSummary(r) ==
    /\ r \in saveRuns /\ r.pc = "insertSummary"
    /\ nextSummaryId <= MaxSummaries
    /\ dbSummaries' = dbSummaries \cup
           {[id |-> nextSummaryId,
             batch_id |-> r.batch.id,
             total_harvest_lbs |-> TotalHarvest(r.data),
             total_lights |-> r.batch.lights_assigned]}
    /\ nextSummaryId' = nextSummaryId + 1
    /\ saveRuns' = Advance(r, [r EXCEPT !.summary_id = nextSummaryId,
                                        !.pc = "insertDetails"])
    /\ lastOp' = Op("saveInsertSummary", r.batch.id,
                    <<Call("insert harvest_summaries", TRUE)>>, "")
    /\ UNCHANGED <<dbBatches, dbBatchStrains, dbDetails, nextBatchId,
                   batches, formVars, harvestVars>>
    /\ UNCHANGED <<facilityVars, roomLookups, otherForm>>

\* 2. .from("harvest_details").insert(harvestDetails): refused when the
\* summary row of the run is no longer stored; the run alerts and returns.
SaveInsertDetails(r) ==
    /\ r \in saveRuns /\ r.pc = "insertDetails"
    /\ LET stored == \E x \in dbSummaries : x.id = r.summary_id
           alert == IF stored THEN ""
                    ELSE "Error saving harvest details. Please try again."
       IN /\ dbDetails' =
                 IF stored THEN dbDetails \cup HarvestDetails(r.summary_id, r.data)
                 ELSE dbDetails
          /\ saveRuns' = Advance(r, [r EXCEPT
                 !.pc = IF stored THEN "updateStatus" ELSE "done",
                 !.alert = alert])
          /\ lastOp' = Op("saveInsertDetails", r.batch.id,
                          <<Call("insert harvest_details", stored)>>, alert)
    /\ UNCHANGED <<dbBatches, dbBatchStrains, dbSummaries, nextBatchId,
                   nextSummaryId, batches, formVars, harvestVars>>
    /\ UNCHANGED <<facilityVars, roomLookups, otherForm>>

\* 3. .from("batches").update({ status: "harvested" }) and, on success, the
\* setBatches and setHarvestDataSaved(true) that end the run.
SaveUpdateStatus(r) ==
    /\ r \in saveRuns /\ r.pc = "updateStatus"
    /\ LET rowExists == \E b \in dbBatches : b.id = r.batch.id
           alert == IF rowExists THEN ""
                    ELSE "Error updating batch status. Please try again."
       IN /\ dbBatches' = UpdateStatus(dbBatches, r.batch.id, "harvested")
          /\ batches' = IF rowExists THEN MarkHarvested(batches, r.batch.id)
                        ELSE batches
          /\ harvestDataSaved' = (rowExists \/ harvestDataSaved)
          /\ saveRuns' = Advance(r, [r EXCEPT !.pc = "done", !.alert = alert])
          /\ lastOp' = Op("saveUpdateStatus", r.batch.id,
                          <<Call("update batches", rowExists)>>, alert)
    /\ UNCHANGED <<dbBatchStrains, dbSummaries, dbDetails, nextBatchId,
                   nextSummaryId, formVars, showHarvestModal,
                   selectedBatchForHarvest, harvestData, harvestSummary,
                   viewingExistingHarvest>>
    /\ UNCHANGED <<facilityVars, roomLookups, otherForm>>

\* The weights the user types in SpecDoubleSave.
DoubleSaveWeights == {0, 5}

NextDoubleSave ==
    \/ \E id \in WorkedBatches : handleUpdateBatchStatus(id, "harvested", TRUE, "full")
    \/ \E strainId \in WorkedStrains, value \in DoubleSaveWeights :
          updateHarvestData(strainId, "bigs_lbs", value)
    \/ \E now \in SaveInstants : SaveStart(now, TRUE)
    \/ \E r \in saveRuns : SaveFetchExisting(r)
    \/ \E r \in saveRuns : SaveDeleteDetails(r)
    \/ \E r \in saveRuns : SaveDeleteSummaries(r)
    \/ \E r \in saveRuns : SaveInsertSummary(r)
    \/ \E r \in saveRuns : SaveInsertDetails(r)
    \/ \E r \in saveRuns : SaveUpdateStatus(r)

SpecDoubleSave == InitHarvest /\ [][NextDoubleSave]_vars

----------------------------------------------------------------------------
\* The facility page over stores that hold up to MaxFacilityBatches batches
\* of the rooms rA and rB in any status, as the batch page leaves them: each
\* batch was created with a typed code and a failed assignment insert, and a
\* harvested batch has its summary and its detail row.

FacilityBatch(id, roomId, status) ==
    [id |-> id, room_id |-> roomId, strain_id |-> "s1",
     batch_code |-> <<"B", DigitChar(id)>>,
     start_date |-> "d1", status |-> status]

FacilityStores ==
    UNION { { {FacilityBatch(i, f[i][1], f[i][2]) : i \in 1..n} :
                f \in [1..n -> {"rA", "rB"} \X Statuses] } :
            n \in 0..MaxFacilityBatches }

FacilitySummaries(rows) ==
    { [id |-> b.id, batch_id |-> b.id, total_harvest_lbs |-> 0,
       total_lights |-> ProcessBatch(b, <<>>).lights_assigned] :
         b \in {x \in rows : x.status = "harvested"} }

FacilityDetails(rows) ==
    UNION { HarvestDetails(b.id, <<EmptyHarvestEntry(b.strain_id)>>) :
              b \in {x \in rows : x.status = "harvested"} }

InitFacility ==
    /\ dbRooms = rooms
    /\ dbBatches \in FacilityStores
    /\ dbBatchStrains = {}
    /\ dbSummaries = FacilitySummaries(dbBatches)
    /\ dbDetails = FacilityDetails(dbBatches)
    /\ nextBatchId = Cardinality(dbBatches) + 1
    /\ nextSummaryId = Cardinality(dbBatches) + 1
    /\ batches = {}
    /\ showAddModal = FALSE
    /\ newBatch = EmptyForm
    /\ batchStrains = <<>>
    /\ selectedStrain = ""
    /\ lightsForStrain = <<>>
    /\ percentageForStrain = <<>>
    /\ showHarvestModal = FALSE
    /\ selectedBatchForHarvest = <<>>
    /\ harvestData = <<>>
    /\ harvestSummary = <<>>
    /\ harvestDataSaved = FALSE
    /\ viewingExistingHarvest = FALSE
    /\ facilityRooms = loadRooms(TRUE, rooms, dbBatches, {})
    /\ roomLookups = {}
    /\ otherForm = ClosedForm
    /\ saveRuns = {}
    /\ lastOp = Op("mountFacility", "", <<Call("select rooms", TRUE)>>, "")

\* The rooms the user deletes in SpecFacility: the two that may have batches
\* and the one that was added.
WorkedRooms == {"rA", "rB"} \cup NewRoomIds

NextFacility ==
    \/ \E loadOk \in BOOLEAN : MountFacility(loadOk)
    \/ \E name \in TypedRoomNames, lightsText \in TypedRoomLights,
          insertOk, loadOk \in BOOLEAN :
          handleAddRoom(name, lightsText, insertOk, loadOk)
    \/ \E id \in WorkedRooms, deleteOk, loadOk \in BOOLEAN :
          handleDeleteRoom(id, deleteOk, loadOk)

SpecFacility == InitFacility /\ [][NextFacility]_vars

----------------------------------------------------------------------------
\* Properties of the status gate and the harvest flow (SpecHarvest).

\* The stored statuses of the rows with an id.
StatusIn(rows, batchId) == {b.status : b \in {x \in rows : x.id = batchId}}

\* C1: a request for 'harvested' through handleUpdateBatchStatus issues no
\* store call and leaves the store and the loaded list as they are: it
\* selects the batch and opens the harvest modal.  A stored status becomes
\* 'harvested' only in a step of handleSaveHarvestData for that batch whose
\* last three store calls are the summary insert, the detail insert and the
\* status update, all successful, the step adding a summary row of the batch
\* and a detail row that references it.
C1_HarvestedOnlyBySave ==
    [][ /\ \A id \in BatchIds, ok \in BOOLEAN, mode \in LoadModes :
              handleUpdateBatchStatus(id, "harvested", ok, mode) =>
                  /\ UNCHANGED <<dbVars, batches>>
                  /\ lastOp'.calls = <<>>
                  /\ showHarvestModal'
                  /\ selectedBatchForHarvest' # <<>>
                  /\ selectedBatchForHarvest'[1].id = id
        /\ \A id \in BatchIds :
              ( /\ "harvested" \in StatusIn(dbBatches', id)
                /\ "harvested" \notin StatusIn(dbBatches, id) ) =>
                  /\ lastOp'.op = "saveHarvest"
                  /\ lastOp'.target = id
                  /\ Len(lastOp'.calls) >= 3
                  /\ LET n == Len(lastOp'.calls)
                     IN /\ lastOp'.calls[n] = Call("update batches", TRUE)
                        /\ lastOp'.calls[n - 1] = Call("insert harvest_details", TRUE)
                        /\ lastOp'.calls[n - 2] = Call("insert harvest_summaries", TRUE)
                  /\ \E sm \in dbSummaries' \ dbSummaries :
                        /\ sm.batch_id = id
                        /\ \E d \in dbDetails' \ dbDetails :
                              d.harvest_summary_id = sm.id
      ]_vars

\* C1 witness: a save has just set the stored status of its batch, which was
\* requested through the status select, to 'harvested'.
C1_SavedAsHarvested ==
    /\ lastOp.op = "saveHarvest"
    /\ lastOp.alert = ""
    /\ lastOp.target \in WorkedBatches
    /\ StatusIn(dbBatches, lastOp.target) = {"harvested"}

\* The statuses the loaded list shows for an id.
ShownStatusIn(list, batchId) == {b.status : b \in {x \in list : x.id = batchId}}

\* C2: a run of handleSaveHarvestData that ends with an error (at the
\* summary insert, the detail insert or the status update) and a close of the
\* harvest modal before a save (Cancel, the X button, the backdrop) leave the
\* stored status and the listed status of every batch as they were.
C2_AbortKeepsStatus ==
    [][ ( \/ lastOp'.op = "saveHarvest" /\ lastOp'.alert # ""
          \/ lastOp'.op = "cancelHarvest"
          \/ lastOp'.op = "closeHarvestBackdrop" /\ ~harvestDataSaved ) =>
            \A id \in BatchIds :
                /\ StatusIn(dbBatches', id) = StatusIn(dbBatches, id)
                /\ ShownStatusIn(batches', id) = ShownStatusIn(batches, id)
      ]_vars

\* C2 witness: a save of a batch that is not harvested failed at the status
\* update, after both inserts were made.
C2_FailedAtStatusUpdate ==
    /\ lastOp.op = "saveHarvest"
    /\ lastOp.alert = "Error updating batch status. Please try again."
    /\ \E sm \in dbSummaries : sm.batch_id = lastOp.target
    /\ StatusIn(dbBatches, lastOp.target) \in {{"planned"}, {"active"}, {"archived"}}
    /\ ShownStatusIn(batches, lastOp.target) = StatusIn(dbBatches, lastOp.target)

\* The strains of a stored batch: those of its assignment rows, or its
\* primary strain when it has none.
StrainsOfBatch(batchId) ==
    LET assigned == {a.strain_id : a \in {x \in dbBatchStrains : x.batch_id = batchId}}
    IN IF assigned # {} THEN assigned
       ELSE {b.strain_id : b \in {x \in dbBatches : x.id = batchId}}

\* C3: after a run of handleSaveHarvestData that completed without an error,
\* the store holds exactly one summary row of the batch, every detail row
\* references a stored summary row, and the detail rows of that one summary
\* row are one per strain of the batch.
C3_OneSummaryAfterSave ==
    (lastOp.op = "saveHarvest" /\ lastOp.alert = "") =>
        LET mine == {sm \in dbSummaries : sm.batch_id = lastOp.target}
            known == {sm.id : sm \in dbSummaries}
        IN /\ Cardinality(mine) = 1
           /\ \A d \in dbDetails : d.harvest_summary_id \in known
           /\ \A sm \in mine :
                 LET rows == {d \in dbDetails : d.harvest_summary_id = sm.id}
                 IN /\ Cardinality(rows) = Cardinality(StrainsOfBatch(lastOp.target))
                    /\ {d.strain_id : d \in rows} = StrainsOfBatch(lastOp.target)

----------------------------------------------------------------------------
\* Properties of the strain allocation (SpecAlloc).

\* No strain id occurs twice in a list.
NoRepeat(list) ==
    \A i, j \in 1..Len(list) : list[i].strain_id = list[j].strain_id => i = j

\* The room of a form has a known light capacity: a number other than 0.
KnownCapacity(form) ==
    \E r \in rooms : r.id = form.room_id /\ r.lights # <<>> /\ r.lights[1] # 0

\* The light capacity of the room with an id, a missing one counted as 0.
CapacityOf(roomId) ==
    LET r == CHOOSE x \in rooms : x.id = roomId
    IN IF r.lights = <<>> THEN 0 ELSE r.lights[1]

C5_StrainOncePerBatch ==
    /\ NoRepeat(batchStrains)
    /\ \A a1, a2 \in dbBatchStrains :
          (a1.batch_id = a2.batch_id /\ a1.strain_id = a2.strain_id) => a1 = a2

\* C5 witness: handleAddStrainToBatch has refused a strain that the pending
\* list already holds.
C5_DuplicateRefused ==
    /\ lastOp.op = "addStrain"
    /\ lastOp.alert = "This strain is already added to the batch"
    /\ \E i \in 1..Len(batchStrains) : batchStrains[i].strain_id = selectedStrain

\* C6: in every step in which handleAddBatch creates a batch, the lights
\* total of the list it submits, and of the assignment rows it inserts, is
\* at most the light capacity of the batch's room (a missing capacity
\* counted as 0).
C6_LightsWithinCapacity ==
    [][ (lastOp'.op = "addBatch" /\ lastOp'.alert = "") =>
            /\ SumLights(batchStrains) <= CapacityOf(newBatch.room_id)
            /\ \E b \in dbBatches' \ dbBatches :
                  /\ b.id = lastOp'.target
                  /\ b.room_id = newBatch.room_id
                  /\ SumLights(AssignmentsOf(dbBatchStrains', b.id))
                        <= CapacityOf(b.room_id)
      ]_vars

\* C6 witness: a batch was created in the room of 16 lights with two
\* assignments that take 16 lights.
C6_CreatedAtCapacity ==
    /\ lastOp.op = "addBatch"
    /\ lastOp.alert = ""
    /\ \E b \in dbBatches : b.id = lastOp.target /\ b.room_id = "rA"
    /\ Cardinality({a \in dbBatchStrains : a.batch_id = lastOp.target}) = 2
    /\ SumLights(AssignmentsOf(dbBatchStrains, lastOp.target)) = 16

\* C7 (as the specification states it): a submit in a room whose capacity is
\* missing or 0 is never refused for its lights total, and is refused when
\* the percentage total is above 100.1.
C7_LightsCheckSkipped ==
    ( /\ lastOp.op = "addBatch"
      /\ newBatch.room_id # ""
      /\ newBatch.start_date # ""
      /\ FindRoom(newBatch.room_id) # <<>>
      /\ ~KnownCapacity(newBatch) ) =>
        /\ lastOp.alert # "Total lights assigned cannot exceed room capacity"
        /\ (batchStrains # <<>> /\ SumPercentage(batchStrains) > 1001) =>
               lastOp.alert = "Total percentage cannot exceed 100%"

\* C8: a submit with no room, with no start date, or with a pending list
\* that validateBatchStrains rejects issues no store call, raises an alert
\* and leaves the store, the loaded list, newBatch and batchStrains as they
\* were.
C8_RejectedSubmitWritesNothing ==
    [][ ( /\ lastOp'.op = "addBatch"
          /\ \/ newBatch.room_id = ""
             \/ newBatch.start_date = ""
             \/ ~validateBatchStrains(batchStrains, newBatch.room_id).ok ) =>
            /\ UNCHANGED <<dbVars, batches, newBatch, batchStrains>>
            /\ lastOp'.calls = <<>>
            /\ lastOp'.alert # ""
      ]_vars

\* C8 witness: a submit in the room of 16 lights was refused for a list of
\* more than 16 lights, with nothing stored.
C8_RefusedOverCapacity ==
    /\ lastOp.op = "addBatch"
    /\ lastOp.alert = "Total lights assigned cannot exceed room capacity"
    /\ newBatch.room_id = "rA"
    /\ SumLights(batchStrains) > 16
    /\ dbBatches = {}
    /\ dbBatchStrains = {}

----------------------------------------------------------------------------
\* Properties of the batch codes (SpecCode).

\* "R{digits}-{year}-" for the rooms offered by the room select, written out.
ExpectedPrefix(roomId) ==
    CASE roomId = "rA" -> <<"R","7","-","2","0","2","6","-">>
      [] roomId = "rB" -> <<"R","1","-","2","0","2","6","-">>
      [] roomId = "rC" -> <<"R","1","2","-","2","0","2","6","-">>

\* The sequence numbers, written out.
ExpectedSeq(n) ==
    << <<"0","1">>, <<"0","2">>, <<"0","3">>, <<"0","4">>, <<"0","5">>,
       <<"0","6">> >>[n]

\* The stored batches of a room whose code begins with the room's prefix.
MatchingCodes(rows, roomId) ==
    {b \in rows :
        /\ b.room_id = roomId
        /\ Len(b.batch_code) >= Len(ExpectedPrefix(roomId))
        /\ \A k \in 1..Len(ExpectedPrefix(roomId)) :
              b.batch_code[k] = ExpectedPrefix(roomId)[k]}

\* C9: a code generated with a successful lookup, at the selection of a room
\* or at a submit with an empty code field, is "R{digits}-{year}-{seq}":
\* digits the first run of digits of the room name ("1" when it has none),
\* seq the number of the room's stored codes that begin with
\* "R{digits}-{year}-", plus one, in two digits.
C9_CodeFromCount ==
    /\ (lastOp.op = "selectRoom" /\ lastOp.calls = <<Call("select batches", TRUE)>>) =>
          newBatch.batch_code =
              ExpectedPrefix(newBatch.room_id)
              \o ExpectedSeq(Cardinality(MatchingCodes(dbBatches, newBatch.room_id)) + 1)
    /\ ( /\ lastOp.op = "addBatch"
         /\ lastOp.alert = ""
         /\ Len(lastOp.calls) = 4
         /\ lastOp.calls[1] = Call("select batches", TRUE) ) =>
          \E b \in dbBatches :
              /\ b.id = lastOp.target
              /\ b.batch_code =
                    ExpectedPrefix(b.room_id)
                    \o ExpectedSeq(Cardinality(MatchingCodes(dbBatches \ {b}, b.room_id)) + 1)

\* C9 witness: with two stored codes R7-2026-*, the selection of
\* "Flower Room 7" has generated R7-2026-03.
C9_ThirdCode ==
    /\ lastOp.op = "selectRoom"
    /\ lastOp.calls = <<Call("select batches", TRUE)>>
    /\ Cardinality(MatchingCodes(dbBatches, "rA")) = 2
    /\ newBatch.batch_code = <<"R","7","-","2","0","2","6","-","0","3">>

\* C10: a code generated with a failed lookup is "R{digits}-{year}-01" and
\* no alert is raised; a submit whose own lookup failed goes on to the
\* insert of the batch; and a batch a submit creates carries the code of the
\* form, or, with an empty code field and a failed lookup, the code
\* "R{digits}-{year}-01".
C10_FallbackCode ==
    [][ /\ (lastOp'.op = "selectRoom" /\ lastOp'.calls = <<Call("select batches", FALSE)>>) =>
              /\ newBatch'.batch_code = ExpectedPrefix(newBatch'.room_id) \o <<"0","1">>
              /\ lastOp'.alert = ""
        /\ ( /\ lastOp'.op = "addBatch"
             /\ lastOp'.calls # <<>>
             /\ lastOp'.calls[1] = Call("select batches", FALSE) ) =>
              /\ Len(lastOp'.calls) >= 2
              /\ lastOp'.calls[2].call = "insert batches"
        /\ (lastOp'.op = "addBatch" /\ lastOp'.alert = "") =>
              \E b \in dbBatches' \ dbBatches :
                  /\ b.id = lastOp'.target
                  /\ newBatch.batch_code # <<>> => b.batch_code = newBatch.batch_code
                  /\ ( /\ newBatch.batch_code = <<>>
                       /\ lastOp'.calls[1] = Call("select batches", FALSE) ) =>
                        b.batch_code = ExpectedPrefix(b.room_id) \o <<"0","1">>
      ]_vars

\* C10 witness: a submit whose lookup failed has created a batch with the
\* code R7-2026-01 although a batch with that code was stored already.
C10_CreatedWithFallback ==
    /\ lastOp.op = "addBatch"
    /\ lastOp.alert = ""
    /\ lastOp.calls[1] = Call("select batches", FALSE)
    /\ \E b1, b2 \in dbBatches :
          /\ b1.id = lastOp.target
          /\ b2.id # b1.id
          /\ b1.batch_code = <<"R","7","-","2","0","2","6","-","0","1">>
          /\ b2.batch_code = b1.batch_code

----------------------------------------------------------------------------
\* Properties of the direct status changes (SpecHarvest).

\* C11: for every listed batch and every target status other than
\* 'harvested', handleUpdateBatchStatus issues the update of the batches row
\* as its first store call, whatever the stored status is; when the update
\* succeeds the stored status of the batch is the target, when it fails the
\* stored status is what it was and an alert is raised; in both cases every
\* other batch row, the strain assignments, the harvest summaries and the
\* harvest details are unchanged.
C11_DirectStatusUpdate ==
    [][ \A id \in BatchIds, t \in {"planned", "active", "archived"},
           ok \in BOOLEAN, mode \in LoadModes :
           handleUpdateBatchStatus(id, t, ok, mode) =>
               /\ lastOp'.calls # <<>>
               /\ lastOp'.calls[1] = Call("update batches", ok)
               /\ ok => /\ StatusIn(dbBatches, id) # {} => StatusIn(dbBatches', id) = {t}
                        /\ lastOp'.alert = ""
               /\ ~ok => /\ StatusIn(dbBatches', id) = StatusIn(dbBatches, id)
                         /\ lastOp'.alert # ""
               /\ {b \in dbBatches' : b.id # id} = {b \in dbBatches : b.id # id}
               /\ UNCHANGED <<dbBatchStrains, dbSummaries, dbDetails>>
      ]_vars

\* C11 witness: a batch that has strain assignments and a stored harvest
\* summary with its detail rows has just been set to 'planned' by a direct
\* update, and the list shows it so.
C11_ReopenedWithHarvestRows ==
    /\ lastOp.op = "updateStatus"
    /\ lastOp.calls # <<>>
    /\ lastOp.calls[1] = Call("update batches", TRUE)
    /\ StatusIn(dbBatches, lastOp.target) = {"planned"}
    /\ ShownStatusIn(batches, lastOp.target) = {"planned"}
    /\ \E a \in dbBatchStrains : a.batch_id = lastOp.target
    /\ \E sm \in dbSummaries :
          /\ sm.batch_id = lastOp.target
          /\ \E d \in dbDetails : d.harvest_summary_id = sm.id

----------------------------------------------------------------------------
\* Properties of the deletion of rooms (SpecFacility).

\* The batches rows that reference a room.
BatchesOfRoom(roomId) == {b \in dbBatches : b.room_id = roomId}

\* C12: a run of handleDeleteRoom for a room that has an active batch issues
\* no store call and leaves the rooms table and the room list as they are;
\* a run for a room whose batches are all harvested or archived issues the
\* delete of the room as its first store call, and when the store carries it
\* out the room is no longer in the rooms table, nor in the room list once
\* the reload has succeeded.
C12_DeleteRoomByActiveBatch ==
    [][ \A id \in RoomIds, deleteOk, loadOk \in BOOLEAN :
           handleDeleteRoom(id, deleteOk, loadOk) =>
               /\ (\E b \in BatchesOfRoom(id) : b.status = "active") =>
                      /\ lastOp'.calls = <<>>
                      /\ UNCHANGED facilityVars
               /\ (\A b \in BatchesOfRoom(id) : b.status \in {"harvested", "archived"}) =>
                      /\ lastOp'.calls # <<>>
                      /\ lastOp'.calls[1] = Call("delete rooms", deleteOk)
                      /\ deleteOk =>
                            /\ id \notin {r.id : r \in dbRooms'}
                            /\ loadOk => id \notin {r.id : r \in facilityRooms'}
      ]_vars

\* C12 witness: a room with a harvested and an archived batch has been
\* deleted and is gone from the table and from the reloaded list.
C12_DeletedWithTerminalBatches ==
    /\ lastOp.op = "deleteRoom"
    /\ lastOp.calls = <<Call("delete rooms", TRUE), Call("select rooms", TRUE)>>
    /\ \E b \in BatchesOfRoom(lastOp.target) : b.status = "harvested"
    /\ \E b \in BatchesOfRoom(lastOp.target) : b.status = "archived"
    /\ lastOp.target \notin {r.id : r \in dbRooms}
    /\ lastOp.target \notin {r.id : r \in facilityRooms}

\* C13 (as the specification states it): a delete of a room that the store
\* has carried out for handleDeleteRoom is never the delete of a room that a
\* planned or an active batch references.
C13_NoDeleteWhileReferenced ==
    ( /\ lastOp.op = "deleteRoom"
      /\ lastOp.calls # <<>>
      /\ lastOp.calls[1] = Call("delete rooms", TRUE) ) =>
        ~ \E b \in BatchesOfRoom(lastOp.target) : b.status \in {"planned", "active"}

----------------------------------------------------------------------------
\* Properties of the harvest economics (SpecEconomics).

\* The weight of one entry and its revenue.
EntryWeight(e) == e.bigs_lbs + e.smalls_lbs + e.micros_lbs

EntryRevenue(e) ==
    e.bigs_lbs * e.bigs_price_per_lb + e.smalls_lbs * e.smalls_price_per_lb
        + e.micros_lbs * e.micros_price_per_lb

\* C14: the summary that calculateHarvestSummary has set carries, for the
\* entries it was computed from (one or two strains), total_harvest_lbs
\* equal to the sum over the strains of bigs + smalls + micros and
\* total_revenue equal to the sum over the strains of bigs * bigs price +
\* smalls * smalls price + micros * micros price.
C14_SummaryTotals ==
    (harvestSummary # <<>> /\ ~viewingExistingHarvest) =>
        LET data == harvestSummary[1].harvest_data
        IN /\ Len(data) \in {1, 2}
           /\ Len(data) = 1 =>
                 /\ harvestSummary[1].total_harvest_lbs = EntryWeight(data[1])
                 /\ harvestSummary[1].total_revenue = EntryRevenue(data[1])
           /\ Len(data) = 2 =>
                 /\ harvestSummary[1].total_harvest_lbs
                        = EntryWeight(data[1]) + EntryWeight(data[2])
                 /\ harvestSummary[1].total_revenue
                        = EntryRevenue(data[1]) + EntryRevenue(data[2])

\* C14 witness: the summary of a save in which one strain has the weights
\* 10, 5, 2 and the prices 20, 10, 5 and the other strain has no weight:
\* weight 17, revenue 260.
C14_Example17And260 ==
    /\ lastOp.op = "saveHarvest"
    /\ harvestSummary # <<>>
    /\ harvestSummary[1].harvest_data =
          << [strain_id |-> "s1", bigs_lbs |-> 10, smalls_lbs |-> 5, micros_lbs |-> 2,
              bigs_price_per_lb |-> 20, smalls_price_per_lb |-> 10,
              micros_price_per_lb |-> 5],
             EmptyHarvestEntry("s2") >>
    /\ harvestSummary[1].total_harvest_lbs = 17
    /\ harvestSummary[1].total_revenue = 260

\* The least whole number of days that is not less than the time from the
\* midnight that begins startDate to the instant now.
CeilingOfElapsedDays(startDate, now) ==
    LET halfDays == 2 * (DayNumber(now.date) - DayNumber(startDate))
                        + (IF now.afterMidnight THEN 1 ELSE 0)
    IN CHOOSE n \in -Len(Calendar)..Len(Calendar) :
          2 * n >= halfDays /\ 2 * (n - 1) < halfDays

RECURSIVE RecordedCosts(_, _, _, _)
\* The amounts of the cost entries with the ids 1..k whose batch_id is the
\* batch or whose room_id is the room and whose date lies between the start
\* date and the date of now.
RecordedCosts(k, batch, startDate, now) ==
    IF k = 0 THEN 0
    ELSE LET e == CHOOSE x \in costEntries : x.id = k
             counts ==
                 /\ e.batch_id = <<batch.id>> \/ e.room_id = <<batch.room_id>>
                 /\ \E i, j, m \in 1..Len(Calendar) :
                       /\ Calendar[i] = startDate /\ Calendar[j] = e.date
                       /\ Calendar[m] = now.date /\ i <= j /\ j <= m
         IN (IF counts THEN e.amount ELSE 0)
            + RecordedCosts(k - 1, batch, startDate, now)

\* C15: in every run of handleSaveHarvestData whose fetch of the cost
\* entries succeeds, the cost_to_grow of the summary is N * 2.70 * D (270
\* cents) plus the recorded costs, where N is the lights of the batch's room
\* (0 when the room is unknown or has no lights value), D the ceiling of the
\* elapsed days from the start date to now, and the recorded costs the sum
\* of the amounts of the entries of the batch or of the room dated from the
\* start date to today; with no such entry it is N * 2.70 * D.  The same
\* holds of calculateCostToGrow for the batch under every room id, known or
\* unknown.
C15_CostToGrowFormula ==
    [][ \A now \in Instants :
           handleSaveHarvestData(now, TRUE, TRUE, TRUE, TRUE, TRUE, TRUE, TRUE) =>
               LET batch == selectedBatchForHarvest[1]
                   D == CeilingOfElapsedDays(batch.start_date, now)
                   N(roomId) ==
                       IF \E r \in rooms : r.id = roomId /\ r.lights # <<>>
                       THEN (CHOOSE r \in rooms : r.id = roomId).lights[1]
                       ELSE 0
                   recorded(roomId) ==
                       RecordedCosts(Cardinality(costEntries),
                                     [batch EXCEPT !.room_id = roomId],
                                     batch.start_date, now)
               IN /\ harvestSummary'[1].cost_to_grow
                        = N(batch.room_id) * 270 * D + recorded(batch.room_id)
                  /\ recorded(batch.room_id) = 0 =>
                        harvestSummary'[1].cost_to_grow = N(batch.room_id) * 270 * D
                  /\ \A roomId \in {r.id : r \in rooms} \cup {"rZ"} :
                        calculateCostToGrow(batch.id, roomId, batch.start_date, now, TRUE)
                            = N(roomId) * 270 * D + recorded(roomId)
      ]_vars

\* C15 witness: a save on the second day after the start date of a batch in
\* the room of 16 lights, with no cost entry in the period: 16 * 2.70 * 2.
C15_ElectricityOnly ==
    /\ lastOp.op = "saveHarvest"
    /\ lastOp.calls[1] = Call("select cost_entries", TRUE)
    /\ harvestSummary # <<>>
    /\ harvestSummary[1].cost_to_grow = 8640

\* C16: a run of handleSaveHarvestData whose fetch of the cost entries
\* fails has the cost_to_grow 0 (no electricity estimate) and the profit
\* equal to the revenue, and the failure blocks nothing: when every other
\* call of the run succeeds there is no error message, the new summary row
\* and its detail rows are stored and the batch is 'harvested' in the store
\* and in the list.
C16_CostFailureGivesZero ==
    (/\ lastOp.op = "saveHarvest"
     /\ lastOp.calls[1] = Call("select cost_entries", FALSE)) =>
        /\ harvestSummary # <<>>
        /\ harvestSummary[1].cost_to_grow = 0
        /\ harvestSummary[1].profit_loss = 100 * harvestSummary[1].total_revenue
        /\ (\A i \in 2..Len(lastOp.calls) : lastOp.calls[i].ok) =>
              /\ lastOp.alert = ""
              /\ harvestDataSaved
              /\ \E s \in dbSummaries :
                    /\ s.batch_id = lastOp.target
                    /\ s.id = nextSummaryId - 1
                    /\ \E d \in dbDetails : d.harvest_summary_id = s.id
              /\ \A b \in dbBatches : b.id = lastOp.target => b.status = "harvested"
              /\ \E b \in dbBatches : b.id = lastOp.target
              /\ \A b \in batches : b.id = lastOp.target => b.status = "harvested"

\* C16 witness: a save of a batch in the room of 16 lights whose cost fetch
\* failed and whose other calls succeeded: cost 0, rows stored, status
\* 'harvested', no message.
C16_SavedWithoutCost ==
    /\ lastOp.op = "saveHarvest"
    /\ lastOp.calls[1] = Call("select cost_entries", FALSE)
    /\ \A i \in 2..Len(lastOp.calls) : lastOp.calls[i].ok
    /\ lastOp.alert = ""
    /\ harvestSummary[1].cost_to_grow = 0
    /\ \E b \in dbBatches :
          b.id = lastOp.target /\ b.status = "harvested" /\ b.room_id = "rA"
    /\ \E s \in dbSummaries : s.batch_id = lastOp.target /\ s.id = nextSummaryId - 1

----------------------------------------------------------------------------
\* Properties of the loaded batch list (SpecHarvest).

\* The stored assignments of a batch.
StoredAssignments(batchId) == {a \in dbBatchStrains : a.batch_id = batchId}

RECURSIVE SumOver(_, _)
\* The sum of one field over a set of rows.
SumOver(rows, field) ==
    IF rows = {} THEN 0
    ELSE LET a == CHOOSE x \in rows : TRUE
         IN a[field] + SumOver(rows \ {a}, field)

\* C17: every listed batch that has at least one stored strain assignment
\* shows as its lights the sum of the lights_assigned of its assignments
\* and as its percentage the sum of their percentage.
C17_DisplayedAggregates ==
    \A b \in batches :
        StoredAssignments(b.id) # {} =>
            /\ b.lights_assigned = SumOver(StoredAssignments(b.id), "lights_assigned")
            /\ b.strain_percentage = SumOver(StoredAssignments(b.id), "percentage")

----------------------------------------------------------------------------
\* Properties of the steps of the harvest recording flow (SpecHarvest).

\* C18: in a run of handleSaveHarvestData a failed call of the recording
\* flow (the fetch of the prior summaries, the two deletes, the two inserts,
\* the status update) is the last call of the run and the run shows an
\* error message and is not marked as saved; after a failed fetch or delete
\* no insert and no status update is issued.
C18_AnyFailureAborts ==
    lastOp.op = "saveHarvest" =>
        \A i \in 2..Len(lastOp.calls) :
            ~lastOp.calls[i].ok =>
                /\ i = Len(lastOp.calls)
                /\ lastOp.alert # ""
                /\ ~harvestDataSaved

\* The place of a store call in the order of the recording flow.
StepRank(name) ==
    CASE name = "select cost_entries" -> 0
      [] name = "select harvest_summaries" -> 1
      [] name = "delete harvest_details" -> 2
      [] name = "delete harvest_summaries" -> 3
      [] name = "insert harvest_summaries" -> 4
      [] name = "insert harvest_details" -> 5
      [] name = "update batches" -> 6

\* C19: every run of handleSaveHarvestData (a step that records the
\* operation saveHarvest) issues its store calls one after
\* the other in the order delete details, delete summaries, insert summary,
\* insert details, update status (after the two reads), each at most once;
\* the deletes of the summaries and the insert of the summary are always
\* issued; the detail rows it stores carry the id of the summary row stored
\* by the same run; and the status update is issued only after the insert
\* of the details, and only when that insert succeeded.
C19_StepsInOrder ==
    [][ lastOp'.op = "saveHarvest" =>
               LET calls == lastOp'.calls
                   at(name) == {i \in 1..Len(calls) : calls[i].call = name}
                   newSummaries == dbSummaries' \ dbSummaries
                   newDetails == dbDetails' \ dbDetails
               IN /\ \A i, j \in 1..Len(calls) :
                        i < j => StepRank(calls[i].call) < StepRank(calls[j].call)
                  /\ at("delete harvest_summaries") # {}
                  /\ at("insert harvest_summaries") # {}
                  /\ Cardinality(newSummaries) <= 1
                  /\ newDetails # {} =>
                        /\ Cardinality(newSummaries) = 1
                        /\ \A s \in newSummaries :
                              /\ calls[Len(calls) - 1] = Call("insert harvest_details", TRUE)
                                    \/ calls[Len(calls)] = Call("insert harvest_details", TRUE)
                              /\ s.batch_id = lastOp'.target
                              /\ \A d \in newDetails : d.harvest_summary_id = s.id
                  /\ \A i \in at("insert harvest_details") :
                        calls[i - 1] = Call("insert harvest_summaries", TRUE)
                  /\ \A i \in at("update batches") :
                        calls[i - 1] = Call("insert harvest_details", TRUE)
                  /\ (\E b \in dbBatches :
                         b.id = lastOp'.target /\ b.status # "harvested"
                         /\ \E b2 \in dbBatches' : b2.id = b.id /\ b2.status = "harvested")
                        => \E i \in at("update batches") :
                              calls[i - 1] = Call("insert harvest_details", TRUE)
      ]_vars

\* C19 witness: a run that replaced prior rows and issued all five writes:
\* both deletes, both inserts and the status update, in this order, with
\* the new detail rows under the new summary.
C19_AllFiveWrites ==
    /\ lastOp.op = "saveHarvest"
    /\ Len(lastOp.calls) = 7
    /\ \A i \in 1..7 : StepRank(lastOp.calls[i].call) = i - 1 /\ lastOp.calls[i].ok
    /\ \E s \in dbSummaries :
          /\ s.batch_id = lastOp.target /\ s.id = nextSummaryId - 1
          /\ \E d \in dbDetails : d.harvest_summary_id = s.id
          /\ \A t \in dbSummaries : t.batch_id = lastOp.target => t = s

\* A run whose fetch of the prior summaries failed and that nevertheless
\* stored a new summary, set the status and showed no message.
SavedAfterFailedFetch ==
    /\ lastOp.op = "saveHarvest"
    /\ lastOp.calls[2] = Call("select harvest_summaries", FALSE)
    /\ lastOp.alert = ""
    /\ harvestDataSaved
    /\ \E s \in dbSummaries : s.batch_id = lastOp.target /\ s.id = nextSummaryId - 1
    /\ \E b \in dbBatches : b.id = lastOp.target /\ b.status = "harvested"

----------------------------------------------------------------------------
\* Properties of the writes of the batch creation (SpecAlloc).

\* C20: a run of handleAddBatch in which the insert of the batch or the
\* insert of the strain assignments failed shows an error message and does
\* not end as a creation does: the add-batch modal stays open and the form
\* keeps its assignments.
C20_WriteFailureSurfaced ==
    (/\ lastOp.op = "addBatch"
     /\ \E i \in 1..Len(lastOp.calls) :
           /\ lastOp.calls[i].call \in {"insert batches", "insert batch_strains"}
           /\ ~lastOp.calls[i].ok) =>
        /\ lastOp.alert # ""
        /\ showAddModal
        /\ batchStrains # <<>>

\* A creation whose batch row was stored and whose assignments were not:
\* no message, the form reset and the modal closed.
CreatedWithoutAssignments ==
    /\ lastOp.op = "addBatch"
    /\ \E i \in 1..Len(lastOp.calls) :
          lastOp.calls[i] = Call("insert batch_strains", FALSE)
    /\ lastOp.alert = ""
    /\ ~showAddModal
    /\ batchStrains = <<>>
    /\ \E b \in dbBatches :
          b.id = lastOp.target /\ StoredAssignments(b.id) = {}

\* A run whose insert of the batch failed: a message, nothing stored, the
\* modal open with its assignments.
BatchInsertFailureSurfaced ==
    /\ lastOp.op = "addBatch"
    /\ lastOp.calls # <<>>
    /\ lastOp.calls[Len(lastOp.calls)] = Call("insert batches", FALSE)
    /\ lastOp.alert = "Error adding batch. Please try again."
    /\ showAddModal
    /\ batchStrains # <<>>
    /\ dbBatches = {}

----------------------------------------------------------------------------
\* Properties of the harvest ratios (SpecYield).

\* A quotient that is the number 0.
IsZero(q) == q.num = 0 /\ q.den # 0

\* A quotient that is the finite number a / b.
IsRatio(q, a, b) == q.den # 0 /\ b # 0 /\ q.num * b = a * q.den

WeightWithoutRevenue ==
    /\ lastOp.op = "saveHarvest"
    /\ harvestSummary # <<>>
    /\ harvestSummary[1].total_harvest_lbs > 0
    /\ harvestSummary[1].total_revenue = 0
    /\ harvestSummary[1].cost_to_grow > 0
    /\ harvestSummary[1].cost_per_lb.num > 0

\* C23: in the summary of every save, yield_per_light and
\* revenue_per_light are the total weight and the total revenue divided by
\* the lights_assigned of the batch held in selectedBatchForHarvest, or by 1
\* when that value is 0; in that case yield_per_light is the total weight,
\* and the summary row the run stores has total_lights 0.
C23_LightsDenominator ==
    (lastOp.op = "saveHarvest" /\ harvestSummary # <<>>) =>
        LET sm == harvestSummary[1]
            L == selectedBatchForHarvest[1].lights_assigned
            stored == {r \in dbSummaries : r.id = nextSummaryId - 1
                                            /\ r.batch_id = lastOp.target}
        IN /\ stored # {}
           /\ L # 0 =>
                 /\ IsRatio(sm.yield_per_light, sm.total_harvest_lbs, L)
                 /\ IsRatio(sm.revenue_per_light, sm.total_revenue, L)
                 /\ \A r \in stored : r.total_lights = L
           /\ L = 0 =>
                 /\ IsRatio(sm.yield_per_light, sm.total_harvest_lbs, 1)
                 /\ IsRatio(sm.revenue_per_light, sm.total_revenue, 1)
                 /\ \A r \in stored : r.total_lights = 0

\* C23 witness: a save of a batch listed with 0 lights and a positive
\* weight: the yield per light is the weight, the stored total_lights 0.
C23_ZeroLightsSaved ==
    /\ lastOp.op = "saveHarvest"
    /\ harvestSummary # <<>>
    /\ selectedBatchForHarvest[1].lights_assigned = 0
    /\ harvestSummary[1].total_harvest_lbs > 0
    /\ harvestSummary[1].yield_per_light = Whole(harvestSummary[1].total_harvest_lbs)
    /\ \E r \in dbSummaries :
          r.id = nextSummaryId - 1 /\ r.batch_id = lastOp.target /\ r.total_lights = 0

----------------------------------------------------------------------------
\* Properties of the flags of the harvest modal (SpecHarvest).

\* C30: viewingExistingHarvest implies harvestDataSaved in every state; a
\* run of handleSaveHarvestData starts only with both flags false; and a
\* step that shows the harvest modal is either a request for 'harvested',
\* which leaves both flags false, or a click on a harvested badge, which
\* leaves both flags true, whatever the flags were before.
C30_ViewingImpliesSaved ==
    /\ (viewingExistingHarvest => harvestDataSaved)
    /\ [][ /\ viewingExistingHarvest' => harvestDataSaved'
           /\ lastOp'.op = "saveHarvest" =>
                 ~viewingExistingHarvest /\ ~harvestDataSaved
           /\ (~showHarvestModal /\ showHarvestModal') =>
                 \/ /\ lastOp'.op = "updateStatus"
                    /\ ~harvestDataSaved' /\ ~viewingExistingHarvest'
                 \/ /\ lastOp'.op = "viewHarvest"
                    /\ harvestDataSaved' /\ viewingExistingHarvest'
       ]_vars

\* C30 witness: the modal of a viewed record closed by the backdrop, which
\* leaves both flags set while no modal is shown.
C30_ClosedWithFlagsSet ==
    /\ lastOp.op = "closeHarvestBackdrop"
    /\ ~showHarvestModal
    /\ viewingExistingHarvest
    /\ harvestDataSaved

----------------------------------------------------------------------------
\* Properties of the generated codes under deletions (SpecReuse).

\* C27: no two stored batches of one room share a batch code.
C27_CodesDistinctInRoom ==
    \A b1, b2 \in dbBatches :
        (b1.id # b2.id /\ b1.room_id = b2.room_id) => b1.batch_code # b2.batch_code

----------------------------------------------------------------------------
\* Properties of the pending list while the form is edited (SpecAlloc).

NegativePending ==
    \E i \in 1..Len(batchStrains) : batchStrains[i].lights_assigned < 0

----------------------------------------------------------------------------
\* Properties of the rounded percentages (SpecRounding).

\* C29: whenever the pending list is not empty, every pending assignment
\* carries the percentage calculated from its lights for the selected room
\* (of known, non-zero lights) and the sum of the lights is within the
\* room's lights, the sum of the percentages is at most 100.1 and
\* validateBatchStrains accepts the list.
C29_AutoListAccepted ==
    LET room == FindRoom(newBatch.room_id)
    IN (/\ room # <<>> /\ room[1].lights # <<>> /\ room[1].lights[1] > 0
        /\ batchStrains # <<>>
        /\ \A i \in 1..Len(batchStrains) :
              batchStrains[i].percentage
                  = PercentageOf(batchStrains[i].lights_assigned, room[1].lights[1])
        /\ SumLights(batchStrains) <= room[1].lights[1]) =>
           /\ SumPercentage(batchStrains) <= 1001
           /\ validateBatchStrains(batchStrains, newBatch.room_id).ok

\* A submit of four strains that fill the room of 16 lights exactly, refused
\* for its percentages.
FullRoomRefused ==
    /\ lastOp.op = "addBatch"
    /\ lastOp.alert = "Total percentage cannot exceed 100%"
    /\ newBatch.room_id = "rA"
    /\ SumLights(batchStrains) = 16
    /\ SumPercentage(batchStrains) = 1002

\* C24: in every state of the store, a batch whose stored status is
\* harvested has at least one harvest_summaries row, and every summary row
\* of such a batch has harvest_details rows.
C24_HarvestedHasRecord ==
    \A b \in dbBatches :
        b.status = "harvested" =>
            /\ \E s \in dbSummaries : s.batch_id = b.id
            /\ \A s \in dbSummaries :
                   s.batch_id = b.id =>
                       \E d \in dbDetails : d.harvest_summary_id = s.id

\* ${roomCode}-${currentYear}- of generateBatchCode for the room roomId.
CodePrefix(roomId) ==
    LET room == FindRoom(roomId)
        code == generateBatchCode(room[1].name, room[1].id, {}, FALSE)
    IN SubSeq(code, 1, Len(code) - 2)

\* C26: when the lookups of the room selections have all returned, the
\* batch_code of the form is a code generated for the room the form holds;
\* and the code stored with a batch is one generated for the batch's room.
C26_CodeOfOwnRoom ==
    /\ (/\ lastOp.op = "selectRoomReturn"
        /\ roomLookups = {}
        /\ newBatch.room_id # "")
       => Like(newBatch.batch_code, CodePrefix(newBatch.room_id))
    /\ \A b \in dbBatches : Like(b.batch_code, CodePrefix(b.room_id))

\* A batch of room rB stored with a code of room rA.
StoredWithOtherRoomsCode ==
    \E b \in dbBatches :
        b.room_id = "rC" /\ Like(b.batch_code, CodePrefix("rA"))

\* The two lookups returned in the order of the selections and left the
\* form with the code of the room selected last.
ReturnedInOrder ==
    /\ lastOp.op = "selectRoomReturn"
    /\ roomLookups = {}
    /\ newBatch.room_id = "rC"
    /\ Like(newBatch.batch_code, CodePrefix("rC"))

\* C21: an insert of either session stores the code its form obtained from
\* the count lookup, whatever rows the store has received since; so when
\* both sessions looked up the codes of one room before either inserted,
\* both rows are stored under the same code.
C21_InsertKeepsLookedUpCode ==
    [][/\ ((/\ lastOp'.op = "addBatch"
             /\ lastOp'.target # 0
             /\ newBatch.batch_code # <<>>)
            => (\E b \in dbBatches' \ dbBatches :
                  /\ b.room_id = newBatch.room_id
                  /\ b.batch_code = newBatch.batch_code))
        /\ ((/\ lastOp'.op = "otherAddBatch"
             /\ lastOp'.target # 0
             /\ otherForm.batch_code # <<>>)
            => (\E c \in dbBatches' \ dbBatches :
                  /\ c.room_id = otherForm.room_id
                  /\ c.batch_code = otherForm.batch_code))]_vars

\* Both sessions created a batch of room rA and the two rows share a code.
C21_TwoRowsOneCode ==
    /\ lastOp.op \in {"addBatch", "otherAddBatch"}
    /\ lastOp.target # 0
    /\ \E b1, b2 \in dbBatches :
          /\ b1.id # b2.id
          /\ b1.room_id = "rA" /\ b2.room_id = "rA"
          /\ b1.batch_code = b2.batch_code

\* C25: once two overlapping runs of handleSaveHarvestData for a batch have
\* both finished, the store holds exactly one harvest_summaries row of the
\* batch and every harvest_details row references a stored summary row.
C25_OneSummaryAfterBothRuns ==
    (/\ Cardinality(saveRuns) = 2
     /\ \A r \in saveRuns : r.pc = "done")
    => /\ \A r \in saveRuns :
             Cardinality(SummaryIdsOf(dbSummaries, r.batch.id)) = 1
       /\ \A d \in dbDetails :
             \E x \in dbSummaries : x.id = d.harvest_summary_id

\* Two runs finished and one of them was refused its detail rows: the other
\* run had deleted its summary row.
OneRunRefused ==
    /\ Cardinality(saveRuns) = 2
    /\ \A r \in saveRuns : r.pc = "done"
    /\ \E r \in saveRuns : r.alert # ""
    /\ \A r \in saveRuns :
          Cardinality(SummaryIdsOf(dbSummaries, r.batch.id)) = 1

====
